---- MODULE Spec2Model ----
(***************************************************************************)
(* The agent execution subsystem of vs-write: the command surface          *)
(* (agent_commands.rs), the agent loop (agent/core.rs), the approval       *)
(* protocol and the session store (agent/session.rs).                      *)
(*                                                                         *)
(* A "call" is one invocation of run_native_agent (entry "command") or of  *)
(* run_simple (entry "direct": run_agent with no event channel, no         *)
(* approval store and no cancellation token).  Each action is one step of  *)
(* a call between two points at which another thread can be observed: an   *)
(* await, a lock, a channel operation or a read of the cancellation token. *)
(***************************************************************************)
EXTENDS Integers, Sequences, FiniteSets, TLC

(***************************************************************************)
(* Bounds of the model.                                                    *)
(***************************************************************************)
\* largest max_iterations a call is started with
MaxIterBound == 2
\* most tool calls the LLM returns over one run (and so in one response)
MaxToolCalls == 2
\* number of concurrent run_native_agent calls in SpecCap
NumCapCalls == 4
\* longest list of prior messages a call is started with
MaxPriorMessages == 1

(***************************************************************************)
(* Program constants.                                                      *)
(***************************************************************************)
MAX_CONCURRENT_RUNS == 3
EVENT_CHANNEL_CAPACITY == 32
Low == 1
Medium == 2
High == 3

(***************************************************************************)
(* Tool names are sequences of tokens, so that `contains(':')` is          *)
(* computed and not looked up: <<"read_file">>, <<"myext", ":", "tool">>.  *)
(***************************************************************************)
ContainsColon(tool_name) == \E i \in 1..Len(tool_name) : tool_name[i] = ":"

\* ToolRisk::for_tool
for_tool(tool_name) ==
    IF ContainsColon(tool_name) THEN Medium
    ELSE IF tool_name \in {<<"read_file">>, <<"list_dir">>, <<"glob">>, <<"grep">>} THEN Low
    ELSE IF tool_name \in {<<"write_file">>, <<"append_file">>} THEN Medium
    ELSE IF tool_name \in {<<"delete_file">>, <<"run_shell">>} THEN High
    ELSE Medium

ApprovalModes == {"AutoApprove", "ApproveDangerous", "ApproveWrites", "ApproveAll", "DryRun"}

\* needs_approval with the ApproveWrites threshold one risk level too high
needs_approval_WritesOnlyHigh(mode, risk) ==
    CASE mode = "AutoApprove" -> FALSE
      [] mode = "ApproveDangerous" -> risk >= High
      [] mode = "ApproveWrites" -> risk >= High
      [] mode = "ApproveAll" -> TRUE
      [] mode = "DryRun" -> TRUE

\* ApprovalMode::needs_approval
needs_approval(mode, risk) ==
    CASE mode = "AutoApprove" -> FALSE
      [] mode = "ApproveDangerous" -> risk >= High
      [] mode = "ApproveWrites" -> risk >= Medium
      [] mode = "ApproveAll" -> TRUE
      [] mode = "DryRun" -> TRUE

(***************************************************************************)
(* AgentError and its Display text.  A text is a sequence of words;        *)
(* `contains("cancelled")` is computed over the words.                     *)
(***************************************************************************)
ErrCancelled == [kind |-> "Cancelled", msg |-> <<>>]
ErrMaxIterations == [kind |-> "MaxIterationsReached", msg |-> <<>>]
ErrLlm(msg) == [kind |-> "LlmError", msg |-> msg]

\* impl Display for AgentError
to_string(e) ==
    CASE e.kind = "LlmError" -> <<"LLM", "error:">> \o e.msg
      [] e.kind = "MaxIterationsReached" -> <<"Max", "iterations", "reached">>
      [] e.kind = "Cancelled" -> <<"Request", "cancelled">>

Contains(text, word) == \E i \in 1..Len(text) : text[i] = word

\* the bodies of the LLM errors the provider adapters produce
LlmErrorTexts == {<<"request", "failed">>, <<"request", "was", "cancelled">>}

(***************************************************************************)
(* Identifiers.  Every uuid::Uuid::new_v4() is a fresh value: the place    *)
(* that mints it and the call (and a per-call counter) name it.            *)
(***************************************************************************)
TaskId(c) == <<"task", c>>
AgentRunId(c) == <<"agent", c>>
SessionId(c) == <<"session", c>>
ApprovalId(c, n) == <<"approval", c, n>>

(***************************************************************************)
(* Inputs of a call.                                                       *)
(***************************************************************************)
Config(valid, has_key, mode, max_iterations) ==
    [valid |-> valid, has_key |-> has_key, approval_mode |-> mode,
     max_iterations |-> max_iterations]

\* max_iterations is validated to 1..100: the smallest and the largest the model follows
GoodConfigs == { Config(TRUE, TRUE, m, n) : m \in ApprovalModes, n \in {1, MaxIterBound} }

\* arguments run_native_agent is called with
CommandInputs ==
    { [entry |-> "command", task_ok |-> TRUE, messages |-> <<>>, config |-> cfg] : cfg \in GoodConfigs }
    \cup { [entry |-> "command", task_ok |-> FALSE, messages |-> <<>>,
             config |-> Config(TRUE, TRUE, "AutoApprove", 1)],
           [entry |-> "command", task_ok |-> TRUE, messages |-> <<>>,
             config |-> Config(FALSE, TRUE, "AutoApprove", 1)],
           [entry |-> "command", task_ok |-> TRUE, messages |-> <<>>,
             config |-> Config(TRUE, FALSE, "AutoApprove", 1)] }

\* arguments run_simple is called with (an AgentConfig, already built)
DirectInputs ==
    { [entry |-> "direct", task_ok |-> TRUE, messages |-> <<>>, config |-> cfg] : cfg \in GoodConfigs }

\* the function calls the LLM asks for, one of each risk: read_file of a file that
\* exists (Low), write_file to a path outside the workspace, which the dispatcher
\* rejects (Medium), delete_file of a file that exists (High).  args stands for the
\* argument JSON text.
LlmFunctionCalls ==
    { [name |-> <<"read_file">>, args |-> "ok"],
      [name |-> <<"write_file">>, args |-> "bad"],
      [name |-> <<"delete_file">>, args |-> "ok"] }

RECURSIVE SeqsUpTo(_, _)
SeqsUpTo(S, n) ==
    IF n = 0 THEN {<<>>}
    ELSE LET shorter == SeqsUpTo(S, n - 1)
         IN  shorter \cup { Append(s, x) : s \in { t \in shorter : Len(t) = n - 1 }, x \in S }

VARIABLES
    input,           \* call -> its arguments
    pc,              \* call -> its position
    run,             \* call -> the locals of run_agent (and the call's result)
    running_tasks,   \* keys of the RunningTasks map (each maps to its call's token)
    cancelled,       \* calls whose CancellationToken is cancelled
    tool_approvals,  \* keys of the ToolApprovalStore map (each maps to its oneshot sender)
    oneshot,         \* approval id -> state of its oneshot channel: "pending", a value
                     \* sent and not yet received, or "closed" (the receiver is gone)
    responding,      \* senders taken out of the map by respond_tool_approval, not yet used
    delivered,       \* approval ids for which a respond_tool_approval sent `true`
    event_tx,        \* call -> contents of its mpsc event channel
    sink,            \* call -> events the UI sink received for this call, in order
    emitted,         \* call -> events the call produced, in the order it produced them
    dispatched,      \* call -> tool calls handed to the tool dispatcher, in order
    sessions,        \* session id -> session
    audit_log,       \* the audit log of the SessionStore, oldest entry first
    registry         \* the ExtensionRegistry: extensions and tool_to_extension

vars == <<input, pc, run, running_tasks, cancelled, tool_approvals, oneshot,
          responding, delivered, event_tx, sink, emitted, dispatched, sessions, audit_log, registry>>

approvalVars == <<tool_approvals, oneshot, responding, delivered>>

Calls == DOMAIN pc

\* ExtensionRegistry::new
ExtensionRegistry_new == [extensions |-> <<>>, tool_to_extension |-> <<>>]

\* Option: None is the empty set, Some(v) the set of v alone
NoneValue == {}
Some(v) == {v}
unwrap(opt) == CHOOSE v \in opt : TRUE

\* format!("{}:{}", manifest.id, tool.name)
full_tool_name(id, name) == id \o <<":">> \o name

\* get_tool_schemas(): the names of the built-in tools
get_tool_schemas ==
    {<<"read_file">>, <<"write_file">>, <<"delete_file">>, <<"append_file">>, <<"list_dir">>,
     <<"glob">>, <<"grep">>, <<"run_shell">>}

\* get_extension_tool_schemas(): the names of the tools it returns
get_extension_tool_schemas(reg) ==
    { full_tool_name(ext_id, reg.extensions[ext_id].manifest.tools[i].name) :
        <<ext_id, i>> \in
            { p \in (DOMAIN reg.extensions) \X (1..2) :
                /\ p[2] <= Len(reg.extensions[p[1]].manifest.tools)
                /\ reg.extensions[p[1]].manifest.tools[p[2]].lua_script # NoneValue } }

\* is_extension_tool(tool_name)
is_extension_tool(reg, tool_name) ==
    /\ ContainsColon(tool_name)
    /\ tool_name \in DOMAIN reg.tool_to_extension

\* tool_name.splitn(2, ':'): the index of the first colon
first_colon(tool_name) == CHOOSE i \in 1..Len(tool_name) :
    tool_name[i] = ":" /\ \A j \in 1..(i - 1) : tool_name[j] # ":"

\* ExtensionRegistry::execute_tool for a name with a colon: Err when the extension or
\* the tool's script is not in the registry, else what call_function returns
execute_tool(reg, tool_call) ==
    LET ext_id == SubSeq(tool_call.name, 1, first_colon(tool_call.name) - 1)
        local_tool_name == SubSeq(tool_call.name, first_colon(tool_call.name) + 1,
                                  Len(tool_call.name))
    IN  IF ext_id \notin DOMAIN reg.extensions
        THEN [output |-> <<"ERROR:", "Extension", "not", "found">>, success |-> FALSE]
        ELSE IF \A i \in DOMAIN reg.extensions[ext_id].manifest.tools :
                   \/ reg.extensions[ext_id].manifest.tools[i].name # local_tool_name
                   \/ reg.extensions[ext_id].manifest.tools[i].lua_script = NoneValue
        THEN [output |-> <<"ERROR:", "Tool", "not", "found", "in", "extension">>,
              success |-> FALSE]
        ELSE IF tool_call.args = "ok"
        THEN [output |-> <<"extension", "output">>, success |-> TRUE]
        ELSE [output |-> <<"ERROR:", "failure">>, success |-> FALSE]

HasTx(c) == input[c].entry = "command"
HasStore(c) == input[c].entry = "command"
HasToken(c) == input[c].entry = "command"
HasRegistry(c) == input[c].entry = "command"
IsCancelled(c) == HasToken(c) /\ c \in cancelled

\* what a call returned: nothing yet, Err(String) before run_agent was called, Ok of
\* run_agent, or (an AgentError record) Err of run_agent
ResNone == [kind |-> "none"]
ResRejected == [kind |-> "rejected"]
ResOk == [kind |-> "Ok"]

\* the locals of run_agent at its entry
InitRun ==
    [iteration |-> 0, conversation |-> <<>>, tool_calls |-> <<>>, idx |-> 0,
     llm_calls |-> 0, llm_tool_calls |-> 0, minted |-> 0, approval_id |-> <<>>, approved |-> FALSE,
     approvals |-> {}, denied |-> {}, all_tool_results |-> <<>>, result |-> ResNone,
     ext_registry |-> ExtensionRegistry_new, tools |-> {}]

InitOf(inputs, calls) ==
    /\ input \in [calls -> inputs]
    /\ pc = [c \in calls |-> IF input[c].entry = "command" THEN "validate"
                            ELSE IF input[c].entry = "safe_path" THEN "safe_path"
                            ELSE IF input[c].entry = "tool" THEN "dispatch_tool"
                            ELSE IF input[c].entry = "registry" THEN "registry"
                            ELSE IF input[c].entry = "lua" THEN "create_lua_runtime"
                            ELSE IF input[c].entry = "verify"
                                 THEN "verify_extension_signature"
                            ELSE IF input[c].entry = "signable" THEN "get_signable_content"
                            ELSE "agent_start"]
    /\ run = [c \in calls |-> InitRun]
    /\ running_tasks = {}
    /\ cancelled = {}
    /\ tool_approvals = {}
    /\ oneshot = <<>>
    /\ responding = {}
    /\ delivered = {}
    /\ event_tx = [c \in calls |-> <<>>]
    /\ sink = [c \in calls |-> <<>>]
    /\ emitted = [c \in calls |-> <<>>]
    /\ dispatched = [c \in calls |-> <<>>]
    /\ sessions = <<>>
    /\ audit_log = <<>>
    /\ registry = ExtensionRegistry_new

\* Spec follows one call at a time in full
RunCalls == {1}
\* every approval id a call of RunCalls can mint
ApprovalIds == { ApprovalId(c, n) : c \in RunCalls, n \in 1..MaxToolCalls }

Init == InitOf(CommandInputs \cup DirectInputs, RunCalls)

(***************************************************************************)
(* Events and messages.                                                    *)
(***************************************************************************)
\* tx.send(event).await on the call's event channel, when it has one
Send(c, evs) ==
    IF HasTx(c)
    THEN /\ Len(event_tx[c]) + Len(evs) <= EVENT_CHANNEL_CAPACITY
         /\ event_tx' = [event_tx EXCEPT ![c] = @ \o evs]
         /\ emitted' = [emitted EXCEPT ![c] = @ \o evs]
    ELSE UNCHANGED <<event_tx, emitted>>

\* Message::tool_result
tool_result(tool_call_id, content) ==
    [role |-> "tool", content |-> content, tool_calls |-> <<>>, tool_call_id |-> tool_call_id]

\* Message::assistant_with_tools
assistant_with_tools(tool_calls) ==
    [role |-> "assistant", content |-> "", tool_calls |-> tool_calls, tool_call_id |-> <<>>]

\* Message::developer (the provider is OpenAI) and Message::user
text_message(role) ==
    [role |-> role, content |-> "", tool_calls |-> <<>>, tool_call_id |-> <<>>]

\* impl From<InputMessage> for Message: the role is read from its name, anything unknown
\* is a user message; a converted message has no tool calls and no tool_call_id
From_InputMessage(msg) ==
    [role |-> IF msg.role \in {"developer", "system", "assistant", "tool"}
              THEN msg.role ELSE "user",
     content |-> msg.content, tool_calls |-> <<>>, tool_call_id |-> <<>>]

\* messages.into_iter().map(|m| m.into()).collect()
Converted(messages) == [i \in 1..Len(messages) |-> From_InputMessage(messages[i])]

\* where a call goes when run_agent returns
AfterAgent(c) == IF input[c].entry = "command" THEN "finish" ELSE "returned"

(***************************************************************************)
(* run_native_agent, up to the call of run_agent.                          *)
(***************************************************************************)
\* input validation and the workspace checks
Validate(c) ==
    /\ pc[c] = "validate"
    /\ IF input[c].task_ok
       THEN /\ pc' = [pc EXCEPT ![c] = "check_limit"]
            /\ run' = run
       ELSE /\ pc' = [pc EXCEPT ![c] = "returned"]
            /\ run' = [run EXCEPT ![c].result = ResRejected]
    /\ UNCHANGED <<input, running_tasks, cancelled, approvalVars, event_tx, sink, emitted,
                   dispatched, sessions, audit_log, registry>>

\* the first check of the limit, under the read lock
CheckLimit(c) ==
    /\ pc[c] = "check_limit"
    /\ IF Cardinality(running_tasks) >= MAX_CONCURRENT_RUNS
       THEN /\ pc' = [pc EXCEPT ![c] = "returned"]
            /\ run' = [run EXCEPT ![c].result = ResRejected]
       ELSE /\ pc' = [pc EXCEPT ![c] = "register"]
            /\ run' = run
    /\ UNCHANGED <<input, running_tasks, cancelled, approvalVars, event_tx, sink, emitted,
                   dispatched, sessions, audit_log, registry>>

\* Register without the second look at the count under the exclusive lock
Register_NoDoubleCheck(c) ==
    /\ pc[c] = "register"
    /\ running_tasks' = running_tasks \cup {TaskId(c)}
    /\ pc' = [pc EXCEPT ![c] = "convert"]
    /\ run' = run
    /\ UNCHANGED <<input, cancelled, approvalVars, event_tx, sink, emitted,
                   dispatched, sessions, audit_log, registry>>

\* the second check and the insertion, under the write lock
Register(c) ==
    /\ pc[c] = "register"
    /\ IF Cardinality(running_tasks) >= MAX_CONCURRENT_RUNS
       THEN /\ pc' = [pc EXCEPT ![c] = "returned"]
            /\ run' = [run EXCEPT ![c].result = ResRejected]
            /\ UNCHANGED running_tasks
       ELSE /\ running_tasks' = running_tasks \cup {TaskId(c)}
            /\ pc' = [pc EXCEPT ![c] = "convert"]
            /\ run' = run
    /\ UNCHANGED <<input, cancelled, approvalVars, event_tx, sink, emitted,
                   dispatched, sessions, audit_log, registry>>

\* InputConfig::into_agent_config: validate, then the API key
into_agent_config(config) == config.valid /\ config.has_key

\* SessionStore fields set by SessionStore::new
max_sessions == 100
max_audit_entries == 1000

\* AuditEntry::session_start and AuditEntry::tool_call
session_start(session_id) == [event_type |-> "SessionStart", session_id |-> session_id]
tool_call_entry(session_id) == [event_type |-> "ToolCall", session_id |-> session_id]

\* log_entry that keeps the first max_audit_entries entries
log_entry_KeepOldest(log, entry) ==
    IF Len(log) + 1 > max_audit_entries
    THEN SubSeq(Append(log, entry), 1, max_audit_entries)
    ELSE Append(log, entry)

\* SessionStore::log_entry: push, then drain the oldest entries over the limit
log_entry(log, entry) ==
    LET pushed == Append(log, entry)
        len == Len(pushed)
    IN  IF len > max_audit_entries
        THEN SubSeq(pushed, len - max_audit_entries + 1, len)
        ELSE pushed

\* SessionStore::create_session (Session::new: status Active)
create_session(c) ==
    (SessionId(c) :> [status |-> "Active", error |-> <<>>, tool_call_count |-> 0]) @@ sessions

\* Convert that creates the session before it converts the configuration
Convert_SessionFirst(c) ==
    /\ pc[c] = "convert"
    /\ sessions' = create_session(c)
    /\ audit_log' = log_entry(audit_log, session_start(SessionId(c)))
    /\ IF into_agent_config(input[c].config)
       THEN /\ pc' = [pc EXCEPT ![c] = "agent_start"]
            /\ run' = [run EXCEPT ![c].ext_registry = registry]
       ELSE /\ pc' = [pc EXCEPT ![c] = "returned"]
            /\ run' = [run EXCEPT ![c].result = ResRejected]
    /\ UNCHANGED <<input, running_tasks, cancelled, approvalVars, event_tx, sink, emitted,
                   dispatched, registry>>

\* config.into_agent_config(..)?, create_session, the clone of the extension registry
\* taken under its read lock, the event channel and its forwarder
Convert(c) ==
    /\ pc[c] = "convert"
    /\ IF into_agent_config(input[c].config)
       THEN /\ sessions' = create_session(c)
            /\ audit_log' = log_entry(audit_log, session_start(SessionId(c)))
            /\ pc' = [pc EXCEPT ![c] = "agent_start"]
            /\ run' = [run EXCEPT ![c].ext_registry = registry]
       ELSE /\ pc' = [pc EXCEPT ![c] = "returned"]
            /\ run' = [run EXCEPT ![c].result = ResRejected]
            /\ UNCHANGED <<sessions, audit_log>>
    /\ UNCHANGED <<input, running_tasks, cancelled, approvalVars, event_tx, sink, emitted,
                   dispatched, registry>>

(***************************************************************************)
(* AgentEvent.  tool_call_id is not a field of the code's events: it names *)
(* the tool call an event is about, so that properties can speak of it.    *)
(***************************************************************************)
EvStart(c) == [type |-> "Start", run_id |-> AgentRunId(c)]
EvCancelled(c) == [type |-> "Cancelled", run_id |-> AgentRunId(c)]
EvComplete(c) == [type |-> "Complete", run_id |-> AgentRunId(c)]
EvError(run_id, error) == [type |-> "Error", run_id |-> run_id, error |-> error]
EvToolSkipped(c, tc) ==
    [type |-> "ToolSkipped", run_id |-> AgentRunId(c), name |-> tc.name, tool_call_id |-> tc.id]
EvToolApprovalRequired(c, tc, approval_id) ==
    [type |-> "ToolApprovalRequired", run_id |-> AgentRunId(c), name |-> tc.name,
     tool_call_id |-> tc.id, approval_id |-> approval_id, risk |-> for_tool(tc.name)]
EvToolCallStart(c, tc) ==
    [type |-> "ToolCallStart", run_id |-> AgentRunId(c), name |-> tc.name, tool_call_id |-> tc.id]
EvToolCallComplete(c, tc, result, success) ==
    [type |-> "ToolCallComplete", run_id |-> AgentRunId(c), name |-> tc.name,
     tool_call_id |-> tc.id, result |-> result, success |-> success]

\* ToolResult::success and ToolResult::error
ToolResult_success(tool_call_id, output) ==
    [tool_call_id |-> tool_call_id, output |-> output, success |-> TRUE]
ToolResult_error(tool_call_id, error) ==
    [tool_call_id |-> tool_call_id, output |-> <<"ERROR:">> \o error, success |-> FALSE]

DenialText == <<"DENIED:", "blocked", "by", "user", "approval">>
DryRunText == <<"[DRY-RUN]", "would", "execute">>

\* the responses client.chat can return to call c: an error, a final text, or tool calls
LlmResponses(c) ==
    { [kind |-> "error", msg |-> m, names |-> <<>>] : m \in LlmErrorTexts }
    \cup { [kind |-> "final", msg |-> <<>>, names |-> <<>>] }
    \cup { [kind |-> "tools", msg |-> <<>>, names |-> ns] :
             ns \in SeqsUpTo(LlmFunctionCalls, MaxToolCalls - run[c].llm_tool_calls) \ {<<>>} }

\* the ToolCalls of a response: the LLM adapter gives each a unique id
ToolCallsOf(c, names) ==
    [k \in 1..Len(names) |->
        [id |-> <<run[c].iteration, k>>, name |-> names[k].name, args |-> names[k].args]]

CurrentToolCall(c) == run[c].tool_calls[run[c].idx]

(***************************************************************************)
(* run_agent.                                                              *)
(***************************************************************************)
\* the registry run_agent reads through its `extensions` argument
run_registry_Shared(c) == registry

run_registry(c) == run[c].ext_registry

\* the Start event, the initial conversation and the tool schemas offered to the LLM
AgentStart(c) ==
    /\ pc[c] = "agent_start"
    /\ Send(c, <<EvStart(c)>>)
    /\ run' = [run EXCEPT ![c].conversation =
                   <<text_message("developer")>> \o Converted(input[c].messages)
                       \o <<text_message("user")>>,
                          ![c].tools =
                   IF HasRegistry(c)
                   THEN get_tool_schemas \cup get_extension_tool_schemas(run_registry(c))
                   ELSE get_tool_schemas]
    /\ pc' = [pc EXCEPT ![c] = "loop_top"]
    /\ UNCHANGED <<input, running_tasks, cancelled, approvalVars, sink, dispatched, sessions, audit_log, registry>>

\* LoopTop whose range is 0..=max_iterations
LoopTop_OneIterationMore(c) ==
    /\ pc[c] = "loop_top"
    /\ IF run[c].iteration > input[c].config.max_iterations
       THEN /\ Send(c, <<EvError(AgentRunId(c), <<"Agent", "reached", "maximum", "iterations">>)>>)
            /\ run' = [run EXCEPT ![c].result = ErrMaxIterations]
            /\ pc' = [pc EXCEPT ![c] = AfterAgent(c)]
       ELSE IF IsCancelled(c)
       THEN /\ Send(c, <<EvCancelled(c)>>)
            /\ run' = [run EXCEPT ![c].result = ErrCancelled]
            /\ pc' = [pc EXCEPT ![c] = AfterAgent(c)]
       ELSE /\ Send(c, <<>>)
            /\ run' = [run EXCEPT ![c].llm_calls = @ + 1]
            /\ pc' = [pc EXCEPT ![c] = "llm_call"]
    /\ UNCHANGED <<input, running_tasks, cancelled, approvalVars, sink, dispatched, sessions, audit_log, registry>>

\* the head of `for iteration in 0..max_iterations` and the cancellation check
LoopTop(c) ==
    /\ pc[c] = "loop_top"
    /\ IF run[c].iteration >= input[c].config.max_iterations
       THEN /\ Send(c, <<EvError(AgentRunId(c), <<"Agent", "reached", "maximum", "iterations">>)>>)
            /\ run' = [run EXCEPT ![c].result = ErrMaxIterations]
            /\ pc' = [pc EXCEPT ![c] = AfterAgent(c)]
       ELSE IF IsCancelled(c)
       THEN /\ Send(c, <<EvCancelled(c)>>)
            /\ run' = [run EXCEPT ![c].result = ErrCancelled]
            /\ pc' = [pc EXCEPT ![c] = AfterAgent(c)]
       ELSE /\ Send(c, <<>>)
            /\ run' = [run EXCEPT ![c].llm_calls = @ + 1]
            /\ pc' = [pc EXCEPT ![c] = "llm_call"]
    /\ UNCHANGED <<input, running_tasks, cancelled, approvalVars, sink, dispatched, sessions, audit_log, registry>>

\* client.chat(..).await? returning one of `responses`, and what follows it up to the
\* first tool call
LlmReturnOf(c, responses) ==
    /\ pc[c] = "llm_call"
    /\ \E resp \in responses :
        IF resp.kind = "error"
        THEN /\ Send(c, <<>>)
             /\ run' = [run EXCEPT ![c].result = ErrLlm(resp.msg)]
             /\ pc' = [pc EXCEPT ![c] = AfterAgent(c)]
        ELSE IF resp.kind = "final"
        THEN /\ Send(c, <<EvComplete(c)>>)
             /\ run' = [run EXCEPT ![c].result = ResOk]
             /\ pc' = [pc EXCEPT ![c] = AfterAgent(c)]
        ELSE /\ Send(c, <<>>)
             /\ run' = [run EXCEPT
                   ![c].conversation = Append(@, assistant_with_tools(ToolCallsOf(c, resp.names))),
                   ![c].tool_calls = ToolCallsOf(c, resp.names),
                   ![c].llm_tool_calls = @ + Len(resp.names),
                   ![c].idx = 1]
             /\ pc' = [pc EXCEPT ![c] = "tool_top"]
    /\ UNCHANGED <<input, running_tasks, cancelled, approvalVars, sink, dispatched, sessions, audit_log, registry>>

LlmReturn(c) == LlmReturnOf(c, LlmResponses(c))

\* ToolTop that asks whether the call needs an approval before it looks for dry-run mode
ToolTop_ApprovalBeforeDryRun(c) ==
    /\ pc[c] = "tool_top"
    /\ IF run[c].idx > Len(run[c].tool_calls)
       THEN /\ Send(c, <<>>)
            /\ run' = [run EXCEPT ![c].iteration = @ + 1]
            /\ pc' = [pc EXCEPT ![c] = "loop_top"]
       ELSE IF IsCancelled(c)
       THEN /\ Send(c, <<EvCancelled(c)>>)
            /\ run' = [run EXCEPT ![c].result = ErrCancelled]
            /\ pc' = [pc EXCEPT ![c] = AfterAgent(c)]
       ELSE IF /\ needs_approval(input[c].config.approval_mode, for_tool(CurrentToolCall(c).name))
               /\ input[c].config.approval_mode # "AutoApprove"
       THEN /\ Send(c, <<>>)
            /\ run' = run
            /\ pc' = [pc EXCEPT ![c] = "approval_register"]
       ELSE IF input[c].config.approval_mode = "DryRun"
       THEN /\ Send(c, <<EvToolSkipped(c, CurrentToolCall(c))>>)
            /\ run' = [run EXCEPT
                  ![c].conversation = Append(@, tool_result(CurrentToolCall(c).id, DryRunText)),
                  ![c].all_tool_results =
                       Append(@, ToolResult_success(CurrentToolCall(c).id, DryRunText)),
                  ![c].idx = @ + 1]
            /\ pc' = pc
       ELSE /\ Send(c, <<>>)
            /\ run' = run
            /\ pc' = [pc EXCEPT ![c] = "tool_start"]
    /\ UNCHANGED <<input, running_tasks, cancelled, approvalVars, sink, dispatched, sessions, audit_log, registry>>

\* ToolTop whose dry-run branch reports the skip and adds no tool message
ToolTop_DryRunNoResult(c) ==
    /\ pc[c] = "tool_top"
    /\ IF run[c].idx > Len(run[c].tool_calls)
       THEN /\ Send(c, <<>>)
            /\ run' = [run EXCEPT ![c].iteration = @ + 1]
            /\ pc' = [pc EXCEPT ![c] = "loop_top"]
       ELSE IF IsCancelled(c)
       THEN /\ Send(c, <<EvCancelled(c)>>)
            /\ run' = [run EXCEPT ![c].result = ErrCancelled]
            /\ pc' = [pc EXCEPT ![c] = AfterAgent(c)]
       ELSE IF input[c].config.approval_mode = "DryRun"
       THEN /\ Send(c, <<EvToolSkipped(c, CurrentToolCall(c))>>)
            /\ run' = [run EXCEPT
                  ![c].all_tool_results =
                       Append(@, ToolResult_success(CurrentToolCall(c).id, DryRunText)),
                  ![c].idx = @ + 1]
            /\ pc' = pc
       ELSE IF /\ needs_approval(input[c].config.approval_mode, for_tool(CurrentToolCall(c).name))
               /\ input[c].config.approval_mode # "AutoApprove"
       THEN /\ Send(c, <<>>)
            /\ run' = run
            /\ pc' = [pc EXCEPT ![c] = "approval_register"]
       ELSE /\ Send(c, <<>>)
            /\ run' = run
            /\ pc' = [pc EXCEPT ![c] = "tool_start"]
    /\ UNCHANGED <<input, running_tasks, cancelled, approvalVars, sink, dispatched, sessions, audit_log, registry>>

\* the head of `for tool_call in &response.tool_calls`: the cancellation check, the
\* dry-run branch and the decision whether the call needs an approval
ToolTop(c) ==
    /\ pc[c] = "tool_top"
    /\ IF run[c].idx > Len(run[c].tool_calls)
       THEN /\ Send(c, <<>>)
            /\ run' = [run EXCEPT ![c].iteration = @ + 1]
            /\ pc' = [pc EXCEPT ![c] = "loop_top"]
       ELSE IF IsCancelled(c)
       THEN /\ Send(c, <<EvCancelled(c)>>)
            /\ run' = [run EXCEPT ![c].result = ErrCancelled]
            /\ pc' = [pc EXCEPT ![c] = AfterAgent(c)]
       ELSE IF input[c].config.approval_mode = "DryRun"
       THEN /\ Send(c, <<EvToolSkipped(c, CurrentToolCall(c))>>)
            /\ run' = [run EXCEPT
                  ![c].conversation = Append(@, tool_result(CurrentToolCall(c).id, DryRunText)),
                  ![c].all_tool_results =
                       Append(@, ToolResult_success(CurrentToolCall(c).id, DryRunText)),
                  ![c].idx = @ + 1]
            /\ pc' = pc
       ELSE IF /\ needs_approval(input[c].config.approval_mode, for_tool(CurrentToolCall(c).name))
               /\ input[c].config.approval_mode # "AutoApprove"
       THEN /\ Send(c, <<>>)
            /\ run' = run
            /\ pc' = [pc EXCEPT ![c] = "approval_register"]
       ELSE /\ Send(c, <<>>)
            /\ run' = run
            /\ pc' = [pc EXCEPT ![c] = "tool_start"]
    /\ UNCHANGED <<input, running_tasks, cancelled, approvalVars, sink, dispatched, sessions, audit_log, registry>>

\* ApprovalRegister that creates the channel but leaves the id out of the map
ApprovalRegister_NoInsert(c) ==
    /\ pc[c] = "approval_register"
    /\ LET a == ApprovalId(c, run[c].minted + 1)
       IN  /\ run' = [run EXCEPT ![c].minted = @ + 1,
                                 ![c].approval_id = a,
                                 ![c].approvals = @ \cup {<<CurrentToolCall(c).id, a>>}]
           /\ IF HasStore(c)
              THEN /\ tool_approvals' = tool_approvals
                   /\ oneshot' = (a :> "pending") @@ oneshot
              ELSE UNCHANGED <<tool_approvals, oneshot>>
    /\ pc' = [pc EXCEPT ![c] = "approval_emit"]
    /\ UNCHANGED <<input, running_tasks, cancelled, responding, delivered, event_tx, sink, emitted,
                   dispatched, sessions, audit_log, registry>>

\* mint the approval id and, with an approval store, insert the sender under the lock
ApprovalRegister(c) ==
    /\ pc[c] = "approval_register"
    /\ LET a == ApprovalId(c, run[c].minted + 1)
       IN  /\ run' = [run EXCEPT ![c].minted = @ + 1,
                                 ![c].approval_id = a,
                                 ![c].approvals = @ \cup {<<CurrentToolCall(c).id, a>>}]
           /\ IF HasStore(c)
              THEN /\ tool_approvals' = tool_approvals \cup {a}
                   /\ oneshot' = (a :> "pending") @@ oneshot
              ELSE UNCHANGED <<tool_approvals, oneshot>>
    /\ pc' = [pc EXCEPT ![c] = "approval_emit"]
    /\ UNCHANGED <<input, running_tasks, cancelled, responding, delivered, event_tx, sink, emitted,
                   dispatched, sessions, audit_log, registry>>

\* ApprovalEmit that denies the call when there is no approval store
ApprovalEmit_DenyWithoutStore(c) ==
    /\ pc[c] = "approval_emit"
    /\ Send(c, <<EvToolApprovalRequired(c, CurrentToolCall(c), run[c].approval_id)>>)
    /\ IF HasStore(c)
       THEN /\ run' = run
            /\ pc' = [pc EXCEPT ![c] = "approval_wait"]
       ELSE /\ run' = [run EXCEPT ![c].approved = FALSE,
                                  ![c].denied = @ \cup {CurrentToolCall(c).id}]
            /\ pc' = [pc EXCEPT ![c] = "approval_cleanup"]
    /\ UNCHANGED <<input, running_tasks, cancelled, approvalVars, sink, dispatched, sessions, audit_log, registry>>

\* emit ToolApprovalRequired; without a receiver the call is approved
ApprovalEmit(c) ==
    /\ pc[c] = "approval_emit"
    /\ Send(c, <<EvToolApprovalRequired(c, CurrentToolCall(c), run[c].approval_id)>>)
    /\ IF HasStore(c)
       THEN /\ run' = run
            /\ pc' = [pc EXCEPT ![c] = "approval_wait"]
       ELSE /\ run' = [run EXCEPT ![c].approved = TRUE]
            /\ pc' = [pc EXCEPT ![c] = "tool_start"]
    /\ UNCHANGED <<input, running_tasks, cancelled, approvalVars, sink, dispatched, sessions, audit_log, registry>>

\* select!: the token.cancelled() branch is taken; the receiver is dropped with the select
WaitCancelled(c) ==
    /\ pc[c] = "approval_wait"
    /\ IsCancelled(c)
    /\ oneshot' = [oneshot EXCEPT ![run[c].approval_id] = "closed"]
    /\ pc' = [pc EXCEPT ![c] = "approval_cancelled"]
    /\ UNCHANGED <<input, run, running_tasks, cancelled, tool_approvals, responding, delivered,
                   event_tx, sink, emitted, dispatched, sessions, audit_log, registry>>

\* CancelCleanup that returns without taking the entry out of the map
CancelCleanup_NoRemove(c) ==
    /\ pc[c] = "approval_cancelled"
    /\ tool_approvals' = tool_approvals
    /\ run' = [run EXCEPT ![c].result = ErrCancelled]
    /\ pc' = [pc EXCEPT ![c] = AfterAgent(c)]
    /\ UNCHANGED <<input, running_tasks, cancelled, oneshot, responding, delivered,
                   event_tx, sink, emitted, dispatched, sessions, audit_log, registry>>

\* the cancellation branch: lock, remove the entry, return Err(Cancelled)
CancelCleanup(c) ==
    /\ pc[c] = "approval_cancelled"
    /\ tool_approvals' = tool_approvals \ {run[c].approval_id}
    /\ run' = [run EXCEPT ![c].result = ErrCancelled]
    /\ pc' = [pc EXCEPT ![c] = AfterAgent(c)]
    /\ UNCHANGED <<input, running_tasks, cancelled, oneshot, responding, delivered,
                   event_tx, sink, emitted, dispatched, sessions, audit_log, registry>>

\* select!: the receiver yields the value the responder sent
WaitResponse(c) ==
    /\ pc[c] = "approval_wait"
    /\ oneshot[run[c].approval_id] \in {"sent_true", "sent_false"}
    /\ run' = [run EXCEPT
          ![c].approved = (oneshot[run[c].approval_id] = "sent_true"),
          ![c].denied = IF oneshot[run[c].approval_id] = "sent_true"
                        THEN @ ELSE @ \cup {CurrentToolCall(c).id}]
    /\ oneshot' = [oneshot EXCEPT ![run[c].approval_id] = "closed"]
    /\ pc' = [pc EXCEPT ![c] = "approval_cleanup"]
    /\ UNCHANGED <<input, running_tasks, cancelled, tool_approvals, responding, delivered,
                   event_tx, sink, emitted, dispatched, sessions, audit_log, registry>>

\* WaitTimeout without the timer: rx.await alone, which gives up only when the sender
\* was dropped unsent
WaitTimeout_NoTimer(c) ==
    /\ pc[c] = "approval_wait"
    /\ oneshot[run[c].approval_id] = "pending"
    /\ run[c].approval_id \notin tool_approvals
    /\ \A approved \in BOOLEAN : <<run[c].approval_id, approved>> \notin responding
    /\ oneshot' = [oneshot EXCEPT ![run[c].approval_id] = "closed"]
    /\ run' = [run EXCEPT ![c].approved = FALSE,
                          ![c].denied = @ \cup {CurrentToolCall(c).id}]
    /\ pc' = [pc EXCEPT ![c] = "approval_cleanup"]
    /\ UNCHANGED <<input, running_tasks, cancelled, tool_approvals, responding, delivered,
                   event_tx, sink, emitted, dispatched, sessions, audit_log, registry>>

\* select!: TOOL_APPROVAL_TIMEOUT elapses first: unwrap_or(false), the receiver is dropped
WaitTimeout(c) ==
    /\ pc[c] = "approval_wait"
    /\ oneshot[run[c].approval_id] = "pending"
    /\ oneshot' = [oneshot EXCEPT ![run[c].approval_id] = "closed"]
    /\ run' = [run EXCEPT ![c].approved = FALSE,
                          ![c].denied = @ \cup {CurrentToolCall(c).id}]
    /\ pc' = [pc EXCEPT ![c] = "approval_cleanup"]
    /\ UNCHANGED <<input, running_tasks, cancelled, tool_approvals, responding, delivered,
                   event_tx, sink, emitted, dispatched, sessions, audit_log, registry>>

\* ApprovalCleanup whose denial branch lacks the `continue` and falls through to the dispatch
ApprovalCleanup_FallThrough(c) ==
    /\ pc[c] = "approval_cleanup"
    /\ tool_approvals' = tool_approvals \ {run[c].approval_id}
    /\ IF run[c].approved
       THEN /\ Send(c, <<>>)
            /\ run' = run
            /\ pc' = [pc EXCEPT ![c] = "tool_start"]
       ELSE /\ Send(c, <<EvToolCallComplete(c, CurrentToolCall(c), DenialText, FALSE)>>)
            /\ run' = [run EXCEPT
                  ![c].conversation = Append(@, tool_result(CurrentToolCall(c).id, DenialText)),
                  ![c].all_tool_results =
                       Append(@, ToolResult_error(CurrentToolCall(c).id, DenialText))]
            /\ pc' = [pc EXCEPT ![c] = "tool_start"]
    /\ UNCHANGED <<input, running_tasks, cancelled, oneshot, responding, delivered, sink,
                   dispatched, sessions, audit_log, registry>>

\* after the wait: lock, remove the entry; on a denial report it and go to the next call
ApprovalCleanup(c) ==
    /\ pc[c] = "approval_cleanup"
    /\ tool_approvals' = tool_approvals \ {run[c].approval_id}
    /\ IF run[c].approved
       THEN /\ Send(c, <<>>)
            /\ run' = run
            /\ pc' = [pc EXCEPT ![c] = "tool_start"]
       ELSE /\ Send(c, <<EvToolCallComplete(c, CurrentToolCall(c), DenialText, FALSE)>>)
            /\ run' = [run EXCEPT
                  ![c].conversation = Append(@, tool_result(CurrentToolCall(c).id, DenialText)),
                  ![c].all_tool_results =
                       Append(@, ToolResult_error(CurrentToolCall(c).id, DenialText)),
                  ![c].idx = @ + 1]
            /\ pc' = [pc EXCEPT ![c] = "tool_top"]
    /\ UNCHANGED <<input, running_tasks, cancelled, oneshot, responding, delivered, sink,
                   dispatched, sessions, audit_log, registry>>

\* dispatch_tool / execute_tool and the match on its result: Ok(output), or Err(e)
\* rendered as "ERROR: {e}"
dispatch_tool(tool_call) ==
    IF tool_call.name \notin get_tool_schemas
    THEN [output |-> <<"ERROR:", "Unknown", "tool">>, success |-> FALSE]
    ELSE IF tool_call.args = "ok"
    THEN [output |-> <<"output">>, success |-> TRUE]
    ELSE [output |-> <<"ERROR:", "failure">>, success |-> FALSE]

\* ExecuteTool that propagates the dispatcher's error as the run's error
ExecuteTool_ErrorEndsRun(c) ==
    /\ pc[c] = "tool_start"
    /\ LET r == dispatch_tool(CurrentToolCall(c)) IN
        IF r.success
        THEN /\ Send(c, <<EvToolCallStart(c, CurrentToolCall(c)),
                          EvToolCallComplete(c, CurrentToolCall(c), r.output, r.success)>>)
             /\ run' = [run EXCEPT
                   ![c].conversation = Append(@, tool_result(CurrentToolCall(c).id, r.output)),
                   ![c].all_tool_results =
                        Append(@, ToolResult_success(CurrentToolCall(c).id, r.output)),
                   ![c].idx = @ + 1]
             /\ pc' = [pc EXCEPT ![c] = "tool_top"]
        ELSE /\ Send(c, <<EvToolCallStart(c, CurrentToolCall(c))>>)
             /\ run' = [run EXCEPT ![c].result = ErrLlm(r.output)]
             /\ pc' = [pc EXCEPT ![c] = AfterAgent(c)]
    /\ dispatched' = [dispatched EXCEPT ![c] = Append(@, CurrentToolCall(c))]
    /\ UNCHANGED <<input, running_tasks, cancelled, approvalVars, sink, sessions, audit_log, registry>>

\* ExecuteTool that reports the completion before the start
ExecuteTool_CompleteBeforeStart(c) ==
    /\ pc[c] = "tool_start"
    /\ LET r == dispatch_tool(CurrentToolCall(c)) IN
        /\ Send(c, <<EvToolCallComplete(c, CurrentToolCall(c), r.output, r.success),
                     EvToolCallStart(c, CurrentToolCall(c))>>)
        /\ run' = [run EXCEPT
              ![c].conversation = Append(@, tool_result(CurrentToolCall(c).id, r.output)),
              ![c].all_tool_results =
                   Append(@, IF r.success
                             THEN ToolResult_success(CurrentToolCall(c).id, r.output)
                             ELSE ToolResult_error(CurrentToolCall(c).id, r.output)),
              ![c].idx = @ + 1]
    /\ dispatched' = [dispatched EXCEPT ![c] = Append(@, CurrentToolCall(c))]
    /\ pc' = [pc EXCEPT ![c] = "tool_top"]
    /\ UNCHANGED <<input, running_tasks, cancelled, approvalVars, sink, sessions, audit_log, registry>>

\* the route of a tool call: the registry's execute_tool for a name the registry
\* knows as an extension tool, else the built-in dispatcher
route_tool(c, tool_call) ==
    IF HasRegistry(c) /\ is_extension_tool(run_registry(c), tool_call.name)
    THEN execute_tool(run_registry(c), tool_call)
    ELSE dispatch_tool(tool_call)

\* emit ToolCallStart, route the call to the registry or the dispatcher, record its
\* result, emit ToolCallComplete, append the tool message
ExecuteTool(c) ==
    /\ pc[c] = "tool_start"
    /\ LET r == route_tool(c, CurrentToolCall(c)) IN
        /\ Send(c, <<EvToolCallStart(c, CurrentToolCall(c)),
                     EvToolCallComplete(c, CurrentToolCall(c), r.output, r.success)>>)
        /\ run' = [run EXCEPT
              ![c].conversation = Append(@, tool_result(CurrentToolCall(c).id, r.output)),
              ![c].all_tool_results =
                   Append(@, IF r.success
                             THEN ToolResult_success(CurrentToolCall(c).id, r.output)
                             ELSE ToolResult_error(CurrentToolCall(c).id, r.output)),
              ![c].idx = @ + 1]
    /\ dispatched' = [dispatched EXCEPT ![c] = Append(@, CurrentToolCall(c))]
    /\ pc' = [pc EXCEPT ![c] = "tool_top"]
    /\ UNCHANGED <<input, running_tasks, cancelled, approvalVars, sink, sessions, audit_log, registry>>

(***************************************************************************)
(* run_native_agent, after run_agent has returned.                         *)
(***************************************************************************)
\* SessionStore::update_session with the closure of the Ok or of the Err arm
update_session(c, result) ==
    IF SessionId(c) \notin DOMAIN sessions THEN sessions
    ELSE IF result.kind = "Ok"
    THEN [sessions EXCEPT ![SessionId(c)].status = "Completed"]
    ELSE IF Contains(to_string(result), "cancelled") \/ Contains(to_string(result), "Cancelled")
    THEN [sessions EXCEPT ![SessionId(c)].status = "Cancelled"]
    ELSE [sessions EXCEPT ![SessionId(c)].status = "Failed",
                          ![SessionId(c)].error = to_string(result)]

\* the events the Err arm emits with app.emit, past the event channel
FinishEvents(c, result) ==
    IF result.kind = "Ok" THEN <<>> ELSE <<EvError(TaskId(c), to_string(result))>>

\* the rest of run_native_agent, which has no await: remove the call's entry from the
\* running tasks (its token goes with it), update the session, and on Err emit an
\* Error event straight to the sink
Finish(c) ==
    /\ pc[c] = "finish"
    /\ running_tasks' = running_tasks \ {TaskId(c)}
    /\ cancelled' = cancelled \ {c}
    /\ sessions' = update_session(c, run[c].result)
    /\ sink' = [sink EXCEPT ![c] = @ \o FinishEvents(c, run[c].result)]
    /\ emitted' = [emitted EXCEPT ![c] = @ \o FinishEvents(c, run[c].result)]
    /\ pc' = [pc EXCEPT ![c] = "returned"]
    /\ UNCHANGED <<input, run, approvalVars, event_tx, dispatched, audit_log, registry>>

\* the forwarder task: rx.recv().await, then app_handle.emit
Forward(c) ==
    /\ event_tx[c] # <<>>
    /\ sink' = [sink EXCEPT ![c] = Append(@, Head(event_tx[c]))]
    /\ event_tx' = [event_tx EXCEPT ![c] = Tail(@)]
    /\ UNCHANGED <<input, pc, run, running_tasks, cancelled, approvalVars, emitted, dispatched,
                   sessions, audit_log, registry>>

(***************************************************************************)
(* The other commands.                                                     *)
(***************************************************************************)
\* cancel_agent_task that cancels the token of every task in the map
cancel_agent_task_EveryTask(c) ==
    /\ TaskId(c) \in running_tasks
    /\ c \notin cancelled
    /\ cancelled' = cancelled \cup { d \in Calls : TaskId(d) \in running_tasks }
    /\ UNCHANGED <<input, pc, run, running_tasks, approvalVars, event_tx, sink, emitted,
                   dispatched, sessions, audit_log, registry>>

\* cancel_agent_task(task_id) for a task id in the map: token.cancel()
cancel_agent_task(c) ==
    /\ TaskId(c) \in running_tasks
    /\ c \notin cancelled
    /\ cancelled' = cancelled \cup {c}
    /\ UNCHANGED <<input, pc, run, running_tasks, approvalVars, event_tx, sink, emitted,
                   dispatched, sessions, audit_log, registry>>

\* approval ids the UI has seen in a ToolApprovalRequired event
SeenApprovalIds ==
    UNION { { sink[c][i].approval_id :
                i \in { j \in 1..Len(sink[c]) : sink[c][j].type = "ToolApprovalRequired" } } :
            c \in Calls }

\* respond_tool_approval that looks the sender up and leaves the entry in the map
RespondRemove_NoRemove(a, approved) ==
    /\ a \in SeenApprovalIds
    /\ a \in tool_approvals
    /\ tool_approvals' = tool_approvals
    /\ responding' = responding \cup {<<a, approved>>}
    /\ UNCHANGED <<input, pc, run, running_tasks, cancelled, oneshot, delivered, event_tx, sink,
                   emitted, dispatched, sessions, audit_log, registry>>

\* respond_tool_approval, first part: lock, pending.remove(&approval_id).  With no
\* entry for the id it returns Err("Unknown or expired approval_id") at once and has
\* changed nothing: that call is no step.
RespondRemove(a, approved) ==
    /\ a \in tool_approvals
    /\ a \in SeenApprovalIds
    /\ tool_approvals' = tool_approvals \ {a}
    /\ responding' = responding \cup {<<a, approved>>}
    /\ UNCHANGED <<input, pc, run, running_tasks, cancelled, oneshot, delivered, event_tx, sink,
                   emitted, dispatched, sessions, audit_log, registry>>

\* respond_tool_approval, second part: sender.send(approved), an error if the
\* receiver is gone
RespondSend(a, approved) ==
    /\ <<a, approved>> \in responding
    /\ responding' = responding \ {<<a, approved>>}
    /\ IF oneshot[a] = "pending"
       THEN /\ oneshot' = [oneshot EXCEPT ![a] = IF approved THEN "sent_true" ELSE "sent_false"]
            /\ delivered' = IF approved THEN delivered \cup {a} ELSE delivered
       ELSE UNCHANGED <<oneshot, delivered>>
    /\ UNCHANGED <<input, pc, run, running_tasks, cancelled, tool_approvals, event_tx, sink,
                   emitted, dispatched, sessions, audit_log, registry>>

Next ==
    \/ \E c \in RunCalls :
        \/ Validate(c) \/ CheckLimit(c) \/ Register(c) \/ Convert(c)
        \/ AgentStart(c) \/ LoopTop(c) \/ LlmReturn(c) \/ ToolTop(c)
        \/ ApprovalRegister(c) \/ ApprovalEmit(c)
        \/ WaitCancelled(c) \/ CancelCleanup(c) \/ WaitResponse(c) \/ WaitTimeout(c)
        \/ ApprovalCleanup(c) \/ ExecuteTool(c)
        \/ Finish(c) \/ Forward(c)
        \/ cancel_agent_task(c)
    \/ \E a \in ApprovalIds, approved \in BOOLEAN :
        \/ RespondRemove(a, approved)
        \/ RespondSend(a, approved)

Spec == Init /\ [][Next]_vars

(***************************************************************************)
(* SpecLive: the same program under the scheduling the runtime gives it.   *)
(* Each call is a task the runtime keeps polling: its awaits are sends on  *)
(* an event channel the forwarder drains, LLM calls and tool dispatches    *)
(* (taken to return), lock acquisitions of sections without an await, and  *)
(* the select! of the approval wait, whose timer fires after               *)
(* TOOL_APPROVAL_TIMEOUT.  The forwarder is a task of its own.  The        *)
(* commands of the UI, cancel_agent_task and respond_tool_approval, may    *)
(* never be called: they get no fairness.                                  *)
(***************************************************************************)
\* the tool calls of the LLM are all of one kind here, delete_file, the kind that
\* needs an approval in every mode that asks for any
LlmReturnLive(c) ==
    LlmReturnOf(c, { r \in LlmResponses(c) :
                       \A k \in 1..Len(r.names) : r.names[k].name = <<"delete_file">> })

RunStep(c) ==
    \/ Validate(c) \/ CheckLimit(c) \/ Register(c) \/ Convert(c)
    \/ AgentStart(c) \/ LoopTop(c) \/ LlmReturnLive(c) \/ ToolTop(c)
    \/ ApprovalRegister(c) \/ ApprovalEmit(c)
    \/ WaitCancelled(c) \/ CancelCleanup(c) \/ WaitResponse(c) \/ WaitTimeout(c)
    \/ ApprovalCleanup(c) \/ ExecuteTool(c)
    \/ Finish(c)

NextLive ==
    \/ \E c \in RunCalls :
        \/ Validate(c) \/ CheckLimit(c) \/ Register(c) \/ Convert(c)
        \/ AgentStart(c) \/ LoopTop(c) \/ LlmReturnLive(c) \/ ToolTop(c)
        \/ ApprovalRegister(c) \/ ApprovalEmit(c)
        \/ WaitCancelled(c) \/ CancelCleanup(c) \/ WaitResponse(c) \/ WaitTimeout(c)
        \/ ApprovalCleanup(c) \/ ExecuteTool(c)
        \/ Finish(c) \/ Forward(c)
        \/ cancel_agent_task(c)
    \/ \E a \in ApprovalIds, approved \in BOOLEAN :
        \/ RespondRemove(a, approved)
        \/ RespondSend(a, approved)

SpecLive ==
    /\ Init
    /\ [][NextLive]_vars
    /\ \A c \in RunCalls : WF_vars(RunStep(c)) /\ WF_vars(Forward(c))

(***************************************************************************)
(* SpecCap: admission control.  NumCapCalls concurrent calls of            *)
(* run_native_agent, each a run whose LLM answers without tool calls, so   *)
(* that the calls meet in the running-tasks map.                           *)
(***************************************************************************)
CapCalls == 1..NumCapCalls

CapInputs ==
    { [entry |-> "command", task_ok |-> TRUE, messages |-> <<>>,
        config |-> Config(TRUE, TRUE, "AutoApprove", 1)],
      [entry |-> "command", task_ok |-> TRUE, messages |-> <<>>,
        config |-> Config(FALSE, TRUE, "AutoApprove", 1)] }

\* The calls differ in nothing but their arguments, so those with a configuration out
\* of range are numbered first.
InitCap ==
    /\ InitOf(CapInputs, CapCalls)
    /\ \A c, d \in CapCalls : (c < d /\ input[c].config.valid) => input[d].config.valid

LlmReturnCap(c) ==
    LlmReturnOf(c, { r \in LlmResponses(c) : r.kind = "final" })

NextCap ==
    \E c \in CapCalls :
        \/ Validate(c) \/ CheckLimit(c) \/ Register(c) \/ Convert(c)
        \/ AgentStart(c) \/ LoopTop(c) \/ LlmReturnCap(c)
        \/ Finish(c)

SpecCap == InitCap /\ [][NextCap]_vars


(***************************************************************************)
(* The conversation: calls of run_native_agent with prior messages.        *)
(***************************************************************************)
\* the role names the frontend sends: two the conversion knows and one it does not
InputRoles == {"assistant", "tool", "function"}

ConvInputs ==
    { [entry |-> "command", task_ok |-> TRUE, messages |-> ms,
       config |-> Config(TRUE, TRUE, "ApproveAll", 1)] :
         ms \in SeqsUpTo({ [role |-> r, content |-> ""] : r \in InputRoles }, MaxPriorMessages) }

InitConv == InitOf(ConvInputs, RunCalls)

SpecConv == InitConv /\ [][Next]_vars

(***************************************************************************)
(* tools::safe_path.  A path is a sequence of components ("." and ".."     *)
(* among them); every path here is absolute.  The file system is a small   *)
(* fixed tree with a workspace /ws, a directory /out outside it, a symlink *)
(* /wl to the workspace and, inside the workspace, a symlink to /out and a *)
(* dangling symlink to /out/new.                                           *)
(***************************************************************************)
Dirs == { <<>>, <<"ws">>, <<"ws", "sub">>, <<"out">> }
Files == { <<"ws", "a.txt">>, <<"ws", ".env">>, <<"out", "x.txt">> }
Links ==
    (<<"wl">> :> <<"ws">>) @@ (<<"ws", "link">> :> <<"out">>)
        @@ (<<"ws", "dangling">> :> <<"out", "new">>)

\* the longest chain of symlinks a lookup follows
MaxSymlinkDepth == 2

Front(p) == SubSeq(p, 1, Len(p) - 1)
Last(p) == p[Len(p)]

\* the kernel's path walk from the directory cur along rest, following symlinks:
\* the canonical path it ends at, or a failure (ENOENT, ENOTDIR, ELOOP)
RECURSIVE Walk(_, _, _)
Walk(cur, rest, fuel) ==
    IF rest = <<>> THEN [ok |-> TRUE, path |-> cur]
    ELSE IF cur \notin Dirs THEN [ok |-> FALSE, path |-> <<>>]
    ELSE IF Head(rest) = "." THEN Walk(cur, Tail(rest), fuel)
    ELSE IF Head(rest) = ".."
    THEN Walk(IF cur = <<>> THEN <<>> ELSE Front(cur), Tail(rest), fuel)
    ELSE LET child == Append(cur, Head(rest)) IN
        IF child \in Dirs \cup Files THEN Walk(child, Tail(rest), fuel)
        ELSE IF child \in DOMAIN Links /\ fuel > 0
        THEN Walk(<<>>, Links[child] \o Tail(rest), fuel - 1)
        ELSE [ok |-> FALSE, path |-> <<>>]

\* Path::canonicalize and Path::exists
canonicalize(p) == Walk(<<>>, p, MaxSymlinkDepth)
exists(p) == canonicalize(p).ok

\* fs::symlink_metadata(p).file_type().is_symlink(): the last component is looked
\* up without being followed
is_symlink(p) ==
    /\ p # <<>>
    /\ Last(p) \notin {".", ".."}
    /\ canonicalize(Front(p)).ok
    /\ Append(canonicalize(Front(p)).path, Last(p)) \in DOMAIN Links

\* Path::components: "." components are dropped
RECURSIVE components(_)
components(p) ==
    IF p = <<>> THEN <<>>
    ELSE IF Head(p) = "." THEN components(Tail(p))
    ELSE <<Head(p)>> \o components(Tail(p))

\* Path::starts_with and Path::strip_prefix, both by components
starts_with(p, base) ==
    /\ Len(components(base)) <= Len(components(p))
    /\ SubSeq(components(p), 1, Len(components(base))) = components(base)
strip_prefix(p, base) == SubSeq(components(p), Len(components(base)) + 1, Len(components(p)))

\* Path::parent and Path::file_name (None, here <<>>, for a path that ends in "..")
parent(p) == Front(components(p))
file_name(p) ==
    IF components(p) = <<>> \/ Last(components(p)) = ".." THEN <<>> ELSE <<Last(components(p))>>

\* the names of the model that SENSITIVE_FILE_PATTERNS and sensitive_dirs match
\* (the name "keychain" equals no pattern and starts with none followed by a dot:
\* the patterns are "keychain.db" and "keychain-db.sqlite")
SENSITIVE_FILE_PATTERNS == {".env"}
sensitive_dirs == {".ssh"}

\* Some(error) of is_sensitive_path: the file name matches a pattern, or a
\* sensitive directory is followed by a separator
is_sensitive_path(p) ==
    \/ file_name(p) # <<>> /\ file_name(p)[1] \in SENSITIVE_FILE_PATTERNS
    \/ \E i \in 1..(Len(p) - 1) : p[i] \in sensitive_dirs

\* Ok(()) of check_no_symlinks_in_path: pushing the root component of a path that
\* is not under the workspace restarts `current` at the root
check_no_symlinks_in_path(p, workspace) ==
    LET under == starts_with(p, workspace)
        relative == IF under THEN strip_prefix(p, workspace) ELSE components(p)
        start == IF under THEN workspace ELSE <<>>
    IN  /\ \A k \in 1..Len(relative) : ~is_symlink(start \o SubSeq(relative, 1, k))
        /\ ~is_symlink(p)

SafeOk(p) == [kind |-> "Ok", path |-> p]
SafeErr(e) == [kind |-> "Err", error |-> e]

\* a requested string: absolute or not, and its components.  "" has no component
\* and is not absolute.
IsRootRequest(requested) == ~requested.abs /\ requested.comps \in {<<>>, <<".">>}

\* safe_path up to its last check: a result it returns early (done), or
\* canonical_requested
canonical_requested(workspace, requested) ==
    LET req == IF IsRootRequest(requested) THEN workspace
               ELSE IF requested.abs THEN requested.comps
               ELSE workspace \o requested.comps
        canonical_workspace == canonicalize(workspace)
        cw == canonical_workspace.path
        early(r) == [done |-> TRUE, result |-> r]
    IN  IF ~canonical_workspace.ok
        THEN early(SafeErr("Failed to canonicalize workspace"))
        ELSE IF exists(req) /\ ~check_no_symlinks_in_path(req, cw)
        THEN early(SafeErr("Symlinks not allowed"))
        ELSE IF is_sensitive_path(req)
        THEN early(SafeErr("Access denied"))
        ELSE IF exists(req)
        THEN [done |-> FALSE, result |-> SafeOk(canonicalize(req).path)]
        ELSE LET par == IF components(req) = <<>> THEN cw ELSE parent(req) IN
            IF exists(par)
            THEN [done |-> FALSE, result |-> SafeOk(canonicalize(par).path \o file_name(req))]
            ELSE LET stripped == starts_with(req, workspace) \/ starts_with(req, cw)
                     relative == IF starts_with(req, workspace) THEN strip_prefix(req, workspace)
                                 ELSE IF starts_with(req, cw) THEN strip_prefix(req, cw)
                                 ELSE components(req)
                 IN  IF ~stripped
                     THEN early(SafeErr("Absolute paths not allowed"))
                     ELSE IF \E i \in 1..Len(relative) : relative[i] = ".."
                     THEN early(SafeErr("Path traversal detected"))
                     ELSE IF starts_with(cw \o relative, cw)
                     THEN early(SafeOk(cw \o relative))
                     ELSE early(SafeErr("escapes workspace"))

safe_path_NoContainmentCheck(workspace, requested) ==
    canonical_requested(workspace, requested).result

\* safe_path: the canonical path is returned only when it is within the workspace
safe_path(workspace, requested) ==
    LET r == canonical_requested(workspace, requested) IN
    IF r.done THEN r.result
    ELSE IF starts_with(r.result.path, canonicalize(workspace).path) THEN r.result
    ELSE SafeErr("escapes workspace")

(***************************************************************************)
(* SpecPath: one call of safe_path on a workspace and a requested string.  *)
(***************************************************************************)
\* the longest requested path, in components
MaxPathLen == 2

\* the workspace directory, a symlink to it, and a directory that is not there
Workspaces == { <<"ws">>, <<"wl">>, <<"gone">> }

PathComponents ==
    {".", "..", "ws", "out", "sub", "a.txt", "x.txt", "new", "link", "dangling", ".env", ".ssh",
     "keychain"}

PathInputs ==
    { [entry |-> "safe_path", workspace |-> w, requested |-> [abs |-> a, comps |-> p]] :
        w \in Workspaces, a \in BOOLEAN, p \in SeqsUpTo(PathComponents, MaxPathLen) }

InitPath == InitOf(PathInputs, RunCalls)

SafePath(c) ==
    /\ pc[c] = "safe_path"
    /\ run' = [run EXCEPT ![c].result = safe_path(input[c].workspace, input[c].requested)]
    /\ pc' = [pc EXCEPT ![c] = "returned"]
    /\ UNCHANGED <<input, running_tasks, cancelled, approvalVars, event_tx, sink,
                   emitted, dispatched, sessions, audit_log, registry>>

NextPath == \E c \in RunCalls : SafePath(c)

SpecPath == InitPath /\ [][NextPath]_vars

(***************************************************************************)
(* SpecTools: one call of a built-in tool on the workspace /ws.  What a    *)
(* tool returns here is the set of paths it opened, listed or named.       *)
(***************************************************************************)
is_file(p) == canonicalize(p).ok /\ canonicalize(p).path \in Files
is_dir(p) == canonicalize(p).ok /\ canonicalize(p).path \in Dirs

\* fs::read_dir: the names in a directory
read_dir(dir) ==
    IF ~is_dir(dir) THEN {}
    ELSE { Last(q) : q \in { q \in Dirs \cup Files \cup DOMAIN Links :
                               q # <<>> /\ Front(q) = canonicalize(dir).path } }

\* names that start with a dot, and names grep takes for text: a text-like
\* extension or none
HiddenNames == {".env", ".ssh"}
TextLikeNames == {"a.txt", "x.txt", "keychain", "new", "sub", "link", "dangling", "ws", "out"}

ToolOk(paths) == [kind |-> "Ok", touched |-> paths]
ToolErr == [kind |-> "Err", touched |-> {}]

\* read_file, write_file, append_file, delete_file, list_dir and the cwd of
\* run_shell: safe_path(workspace, path)?, then the file operation on its result
path_tool(workspace, requested, must_exist) ==
    LET safe == safe_path(workspace, requested) IN
    IF safe.kind = "Err" THEN ToolErr
    ELSE IF must_exist /\ ~exists(safe.path) THEN ToolErr
    ELSE ToolOk({safe.path})

\* grep's search_dir: the files it opens below dir_path.  Hidden names are
\* skipped; is_dir and is_file follow symlinks.
RECURSIVE search_dir(_)
search_dir(dir_path) ==
    UNION { LET path == Append(dir_path, name) IN
            IF name \in HiddenNames THEN {}
            ELSE IF is_dir(path) THEN search_dir(path)
            ELSE IF is_file(path) /\ name \in TextLikeNames THEN {path}
            ELSE {} : name \in read_dir(dir_path) }

grep_files(workspace, requested) ==
    LET safe == safe_path(workspace, requested) IN
    IF safe.kind = "Err" \/ ~exists(safe.path) THEN ToolErr
    ELSE IF is_file(safe.path) THEN ToolOk({safe.path})
    ELSE ToolOk(search_dir(safe.path))

\* the glob patterns of the model: every name of the base directory (hidden names
\* too: the glob crate's default options), or one name
GlobPatterns == {"*", "a.txt"}

\* glob_files: the matches whose canonical path is within the canonical workspace
glob_files(workspace, pattern, base_path) ==
    LET safe_base == safe_path(workspace, base_path) IN
    IF safe_base.kind = "Err" \/ ~exists(safe_base.path) THEN ToolErr
    ELSE ToolOk({ canonicalize(Append(safe_base.path, name)).path :
                    name \in { n \in read_dir(safe_base.path) :
                                 /\ pattern \in {"*", n}
                                 /\ canonicalize(Append(safe_base.path, n)).ok
                                 /\ starts_with(canonicalize(Append(safe_base.path, n)).path,
                                                canonicalize(workspace).path) } })

ToolNames ==
    {"read_file", "write_file", "append_file", "delete_file", "list_dir", "glob", "grep",
     "run_shell"}

\* dispatch_tool on the file system: the tool chosen by name, with its arguments
dispatch_tool_paths(workspace, name, args) ==
    CASE name \in {"read_file", "delete_file", "list_dir", "run_shell"} ->
            path_tool(workspace, args.path, TRUE)
      [] name \in {"write_file", "append_file"} -> path_tool(workspace, args.path, FALSE)
      [] name = "glob" -> glob_files(workspace, args.pattern, args.path)
      [] name = "grep" -> grep_files(workspace, args.path)

ToolInputs ==
    { [entry |-> "tool", workspace |-> <<"ws">>, name |-> n,
       args |-> [path |-> [abs |-> a, comps |-> p], pattern |-> g]] :
        n \in ToolNames, a \in BOOLEAN, p \in SeqsUpTo(PathComponents, MaxPathLen),
        g \in GlobPatterns }

InitTools == InitOf(ToolInputs, RunCalls)

DispatchTool(c) ==
    /\ pc[c] = "dispatch_tool"
    /\ run' = [run EXCEPT ![c].result =
                  dispatch_tool_paths(input[c].workspace, input[c].name, input[c].args)]
    /\ pc' = [pc EXCEPT ![c] = "returned"]
    /\ UNCHANGED <<input, running_tasks, cancelled, approvalVars, event_tx, sink,
                   emitted, dispatched, sessions, audit_log, registry>>

NextTools == \E c \in RunCalls : DispatchTool(c)

SpecTools == InitTools /\ [][NextTools]_vars

(***************************************************************************)
(* SpecStore: the SessionStore under concurrent use.  The store starts as  *)
(* PrefilledSessions calls of create_session and the log_tool_call calls   *)
(* that bring the audit log to PrefilledEntries entries leave it, with the *)
(* sessions either all still Active or all completed; then StoreCalls      *)
(* threads each perform up to MaxStoreOps operations.                      *)
(***************************************************************************)
StoreCalls == {1, 2}
\* operations per thread
MaxStoreOps == 2

PrefilledSessions == max_sessions - 1
PrefilledEntries == max_audit_entries - 1

\* the uuid of the k-th session thread c creates; thread 0 created the prefilled ones
StoreSessionId(c, k) == <<"session", c, k>>

\* Utc::now(): later than every created_at in the store
Now(store) ==
    IF DOMAIN store = {} THEN 1
    ELSE 1 + (CHOOSE t \in { store[i].created_at : i \in DOMAIN store } :
                \A i \in DOMAIN store : store[i].created_at <= t)

\* Session::new
NewSession(now) == [status |-> "Active", error |-> <<>>, created_at |-> now]

\* the first n elements of the set of ids S in the order of created_at
RECURSIVE OldestFirst(_, _, _)
OldestFirst(store, S, n) ==
    IF n = 0 \/ S = {} THEN {}
    ELSE LET first == CHOOSE i \in S : \A j \in S : store[i].created_at <= store[j].created_at
         IN  {first} \cup OldestFirst(store, S \ {first}, n - 1)

\* insert_session that evicts the oldest sessions whatever their status
insert_session_EvictsAnyStatus(store, id) ==
    LET inserted == (id :> NewSession(Now(store))) @@ store
        len == Cardinality(DOMAIN inserted)
    IN  IF len > max_sessions
        THEN LET removed == OldestFirst(inserted, DOMAIN inserted, len - max_sessions)
             IN  [i \in DOMAIN inserted \ removed |-> inserted[i]]
        ELSE inserted

\* SessionStore::create_session, the block under the write lock: insert, then over
\* the limit remove the oldest sessions that are not Active
insert_session(store, id) ==
    LET inserted == (id :> NewSession(Now(store))) @@ store
        len == Cardinality(DOMAIN inserted)
    IN  IF len > max_sessions
        THEN LET completed == { i \in DOMAIN inserted : inserted[i].status # "Active" }
                 removed == OldestFirst(inserted, completed, len - max_sessions)
             IN  [i \in DOMAIN inserted \ removed |-> inserted[i]]
        ELSE inserted

PrefilledStore(status) ==
    [id \in { StoreSessionId(0, i) : i \in 1..PrefilledSessions } |->
        [status |-> status, error |-> <<>>, created_at |-> id[3]]]

PrefilledLog ==
    [i \in 1..PrefilledEntries |->
        IF i <= PrefilledSessions THEN session_start(StoreSessionId(0, i))
        ELSE tool_call_entry(StoreSessionId(0, 1))]

InitStore ==
    /\ input = [c \in StoreCalls |-> [entry |-> "store"]]
    /\ pc = [c \in StoreCalls |-> "store"]
    /\ run = [c \in StoreCalls |-> InitRun]
    /\ running_tasks = {}
    /\ cancelled = {}
    /\ tool_approvals = {}
    /\ oneshot = <<>>
    /\ responding = {}
    /\ delivered = {}
    /\ event_tx = [c \in StoreCalls |-> <<>>]
    /\ sink = [c \in StoreCalls |-> <<>>]
    /\ emitted = [c \in StoreCalls |-> <<>>]
    /\ dispatched = [c \in StoreCalls |-> <<>>]
    /\ sessions \in {PrefilledStore("Active"), PrefilledStore("Completed")}
    /\ audit_log = PrefilledLog
    /\ registry = ExtensionRegistry_new

storeOther == <<input, running_tasks, cancelled, approvalVars, event_tx, sink, dispatched>>

\* a thread starts another operation: run[c].iteration counts them
StartOp(c) ==
    /\ pc[c] = "store"
    /\ run[c].iteration < MaxStoreOps

\* create_session, first block: the insertion under the sessions lock
CreateSession(c) ==
    /\ StartOp(c)
    /\ sessions' = insert_session(sessions, StoreSessionId(c, run[c].minted + 1))
    /\ run' = [run EXCEPT ![c].iteration = @ + 1, ![c].minted = @ + 1]
    /\ pc' = [pc EXCEPT ![c] = "store_log"]
    /\ UNCHANGED <<storeOther, emitted, audit_log, registry>>

\* create_session, second part: log_entry(AuditEntry::session_start(&id)).  Here
\* emitted[c] keeps the entries thread c has handed to log_entry, in order.
LogSessionStart(c) ==
    /\ pc[c] = "store_log"
    /\ audit_log' = log_entry(audit_log, session_start(StoreSessionId(c, run[c].minted)))
    /\ emitted' = [emitted EXCEPT
          ![c] = Append(@, session_start(StoreSessionId(c, run[c].minted)))]
    /\ pc' = [pc EXCEPT ![c] = "store"]
    /\ UNCHANGED <<storeOther, run, sessions, registry>>

\* the sessions a thread updates: the oldest one and its own latest
StoreTargets(c) == {StoreSessionId(0, 1), StoreSessionId(c, run[c].minted)}
\* every session id of the model outside the prefilled ones, and the oldest of those
StoreSessionIds ==
    {StoreSessionId(0, 1)} \cup { StoreSessionId(c, k) : c \in StoreCalls, k \in 0..MaxStoreOps }

\* update_session(id, |s| s.complete()); fail and cancel leave the session not
\* Active in the same way
UpdateSession(c, id) ==
    /\ StartOp(c)
    /\ id \in StoreTargets(c)
    /\ sessions' = IF id \in DOMAIN sessions
                   THEN [sessions EXCEPT ![id].status = "Completed"]
                   ELSE sessions
    /\ run' = [run EXCEPT ![c].iteration = @ + 1]
    /\ UNCHANGED <<storeOther, pc, emitted, audit_log, registry>>

\* log_tool_call for the thread's latest session: log_entry(AuditEntry::tool_call(..));
\* the update of the session's tool count that follows changes nothing the model holds
LogToolCall(c) ==
    /\ StartOp(c)
    /\ audit_log' = log_entry(audit_log, tool_call_entry(StoreSessionId(c, run[c].minted)))
    /\ emitted' = [emitted EXCEPT
          ![c] = Append(@, tool_call_entry(StoreSessionId(c, run[c].minted)))]
    /\ run' = [run EXCEPT ![c].iteration = @ + 1]
    /\ UNCHANGED <<storeOther, pc, sessions, registry>>

NextStore ==
    \E c \in StoreCalls :
        \/ CreateSession(c)
        \/ LogSessionStart(c)
        \/ \E id \in StoreSessionIds : UpdateSession(c, id)
        \/ LogToolCall(c)

SpecStore == InitStore /\ [][NextStore]_vars

(***************************************************************************)
(* SpecRegistry: the ExtensionRegistry.  One caller performs up to         *)
(* MaxRegistryOps operations on it (the registry is behind a lock, so each *)
(* operation is one step): load_extension of one of the directories of     *)
(* ExtensionDirs, unload_extension, execute_hook.  Strings are sequences   *)
(* of characters.                                                          *)
(***************************************************************************)
MaxRegistryOps == 3

\* char::is_ascii_alphanumeric
is_ascii_alphanumeric(ch) ==
    ch \in {"a", "b", "c", "d", "e", "f", "g", "h", "i", "j", "k", "l", "m", "n", "o", "p",
            "q", "r", "s", "t", "u", "v", "w", "x", "y", "z", "A", "B", "C", "D", "E", "F",
            "G", "H", "I", "J", "K", "L", "M", "N", "O", "P", "Q", "R", "S", "T", "U", "V",
            "W", "X", "Y", "Z", "0", "1", "2", "3", "4", "5", "6", "7", "8", "9"}

\* str::contains for a pattern of characters
str_contains(str, pat) ==
    \E i \in 0..(Len(str) - Len(pat)) : \A j \in 1..Len(pat) : str[i + j] = pat[j]

\* validate_extension_id(id).is_ok()
validate_extension_id(id) ==
    /\ Len(id) # 0
    /\ Len(id) <= 64
    /\ ~str_contains(id, <<".", ".">>)
    /\ ~(Len(id) > 0 /\ id[1] \in {"/", "\\"})
    /\ \A i \in 1..Len(id) : is_ascii_alphanumeric(id[i]) \/ id[i] \in {"-", "_"}

\* LifecycleConfig::is_enabled for the hooks the model calls
LifecycleHooks == {"on_activate", "on_deactivate"}
is_enabled(lc, hook) ==
    CASE hook = "on_activate" -> lc.on_activate
      [] hook = "on_deactivate" -> lc.on_deactivate

\* a LuaToolDefinition: its name, its luaScript (a file name or None), and whether it
\* has a pythonModule
LuaTool(name, script) == [name |-> name, lua_script |-> Some(script), python_module |-> FALSE]
PythonTool(name) == [name |-> name, lua_script |-> NoneValue, python_module |-> TRUE]
BareTool(name) == [name |-> name, lua_script |-> NoneValue, python_module |-> FALSE]

\* an ExtensionManifest: id, tools and lifecycle (a LifecycleConfig or None)
Manifest(id, tools, lifecycle) ==
    Some([id |-> id, tools |-> tools, lifecycle |-> lifecycle])

\* The extension directories handed to load_extension: the parsed manifest.json (None
\* when the file is missing) and the names of the other files present.
ExtensionDirs ==
    { [manifest |-> NoneValue, files |-> {}],
      \* extension e with tool a, on_activate enabled, hooks.lua present
      [manifest |-> Manifest(<<"e">>, <<LuaTool(<<"a">>, "a.lua")>>,
                             Some([on_activate |-> TRUE, on_deactivate |-> FALSE])),
       files |-> {"a.lua", "hooks.lua"}],
      \* extension e again, with tool b instead, no lifecycle section, hooks.lua present
      [manifest |-> Manifest(<<"e">>, <<LuaTool(<<"b">>, "b.lua")>>, NoneValue),
       files |-> {"b.lua", "hooks.lua"}],
      \* extension e, whose second tool names a script that is missing
      [manifest |-> Manifest(<<"e">>, <<LuaTool(<<"c">>, "c.lua"), LuaTool(<<"d">>, "d.lua")>>,
                             NoneValue),
       files |-> {"c.lua"}],
      \* extension o: a legacy tool, on_activate enabled but no hooks.lua
      [manifest |-> Manifest(<<"o">>, <<PythonTool(<<"p">>)>>,
                             Some([on_activate |-> TRUE, on_deactivate |-> FALSE])),
       files |-> {}],
      \* extension o, whose tool has neither luaScript nor pythonModule
      [manifest |-> Manifest(<<"o">>, <<BareTool(<<"q">>)>>, NoneValue),
       files |-> {}],
      \* ids that validate_extension_id refuses
      [manifest |-> Manifest(<<"a", ":", "b">>, <<LuaTool(<<"a">>, "a.lua")>>, NoneValue),
       files |-> {"a.lua"}],
      [manifest |-> Manifest(<<".", ".">>, <<>>, NoneValue), files |-> {}] }

\* the extension ids of the model
ExtensionIds ==
    { unwrap(d.manifest).id : d \in { x \in ExtensionDirs : x.manifest # NoneValue } }

\* HashMap::insert and HashMap::remove
map_insert(map, key, value) ==
    [k \in DOMAIN map \cup {key} |-> IF k = key THEN value ELSE map[k]]
map_remove(map, key) == [k \in DOMAIN map \ {key} |-> map[k]]

\* The loop of load_extension over manifest.tools from tool i on: the tool mapping it
\* leaves and whether it ran to the end (ok) or returned Err.
RECURSIVE load_tools(_, _, _)
load_tools(dir, tool_to_extension, i) ==
    IF i > Len(unwrap(dir.manifest).tools)
    THEN [ok |-> TRUE, tool_to_extension |-> tool_to_extension]
    ELSE LET tool == unwrap(dir.manifest).tools[i] IN
         IF tool.lua_script # NoneValue
         THEN IF unwrap(tool.lua_script) \notin dir.files
              THEN [ok |-> FALSE, tool_to_extension |-> tool_to_extension]
              ELSE load_tools(dir,
                              map_insert(tool_to_extension,
                                         full_tool_name(unwrap(dir.manifest).id, tool.name),
                                         unwrap(dir.manifest).id),
                              i + 1)
         ELSE IF tool.python_module THEN load_tools(dir, tool_to_extension, i + 1)
         ELSE [ok |-> FALSE, tool_to_extension |-> tool_to_extension]

\* load_extension(extension_dir): the registry it leaves and whether it returned Ok
load_extension(reg, dir) ==
    IF dir.manifest = NoneValue THEN [registry |-> reg, ok |-> FALSE]
    ELSE LET loaded == load_tools(dir, reg.tool_to_extension, 1) IN
         IF ~loaded.ok
         THEN [registry |-> [reg EXCEPT !.tool_to_extension = loaded.tool_to_extension],
               ok |-> FALSE]
         ELSE [registry |->
                  [extensions |->
                      map_insert(reg.extensions, unwrap(dir.manifest).id,
                                 [manifest |-> unwrap(dir.manifest),
                                  hooks_script |-> "hooks.lua" \in dir.files]),
                   tool_to_extension |-> loaded.tool_to_extension],
               ok |-> TRUE]

\* the loop of unload_extension over the removed extension's manifest.tools
RECURSIVE unload_tools(_, _, _, _)
unload_tools(tools, extension_id, tool_to_extension, i) ==
    IF i > Len(tools) THEN tool_to_extension
    ELSE unload_tools(tools, extension_id,
                      map_remove(tool_to_extension, full_tool_name(extension_id, tools[i].name)),
                      i + 1)

\* unload_extension(extension_id)
unload_extension(reg, extension_id) ==
    IF extension_id \in DOMAIN reg.extensions
    THEN [registry |->
             [extensions |-> map_remove(reg.extensions, extension_id),
              tool_to_extension |->
                  unload_tools(reg.extensions[extension_id].manifest.tools, extension_id,
                               reg.tool_to_extension, 1)],
          ok |-> TRUE]
    ELSE [registry |-> reg, ok |-> FALSE]

\* list_extensions()
list_extensions(reg) == DOMAIN reg.extensions

\* What execute_hook returns: Err(String), or Ok(HookResult) with its success field;
\* ran tells whether call_function was reached, that is, whether script code ran.
HookErr == [kind |-> "Err", success |-> FALSE, ran |-> FALSE]
HookOk(success, ran) == [kind |-> "Ok", success |-> success, ran |-> ran]

\* execute_hook(extension_id, hook, ..); call_ok is the outcome of call_function
execute_hook(reg, extension_id, hook, call_ok) ==
    IF extension_id \notin DOMAIN reg.extensions THEN HookErr
    ELSE LET extension == reg.extensions[extension_id] IN
         IF extension.manifest.lifecycle = NoneValue THEN HookOk(TRUE, FALSE)
         ELSE IF ~is_enabled(unwrap(extension.manifest.lifecycle), hook)
         THEN HookOk(TRUE, FALSE)
         ELSE IF ~extension.hooks_script THEN HookErr
         ELSE HookOk(call_ok, TRUE)

RegistryInputs == {[entry |-> "registry"]}

InitRegistry == InitOf(RegistryInputs, RunCalls)

\* the caller starts another operation: run[c].iteration counts them
StartRegistryOp(c) ==
    /\ pc[c] = "registry"
    /\ run[c].iteration < MaxRegistryOps

registryOther ==
    <<input, pc, running_tasks, cancelled, approvalVars, event_tx, sink, emitted, dispatched,
      sessions, audit_log>>

LoadExtension(c, dir) ==
    /\ StartRegistryOp(c)
    /\ registry' = load_extension(registry, dir).registry
    /\ run' = [run EXCEPT ![c].iteration = @ + 1,
                          ![c].result = [op |-> "load_extension", dir |-> dir,
                                         ok |-> load_extension(registry, dir).ok]]
    /\ UNCHANGED registryOther

UnloadExtension(c, id) ==
    /\ StartRegistryOp(c)
    /\ registry' = unload_extension(registry, id).registry
    /\ run' = [run EXCEPT ![c].iteration = @ + 1,
                          ![c].result = [op |-> "unload_extension", id |-> id,
                                         ok |-> unload_extension(registry, id).ok]]
    /\ UNCHANGED registryOther

ExecuteHook(c, id, hook, call_ok) ==
    /\ StartRegistryOp(c)
    /\ run' = [run EXCEPT ![c].iteration = @ + 1,
                          ![c].result = [op |-> "execute_hook", id |-> id, hook |-> hook,
                                         ret |-> execute_hook(registry, id, hook, call_ok)]]
    /\ UNCHANGED <<registryOther, registry>>

NextRegistry ==
    \E c \in RunCalls :
        \/ \E dir \in ExtensionDirs : LoadExtension(c, dir)
        \/ \E id \in ExtensionIds : UnloadExtension(c, id)
        \/ \E id \in ExtensionIds, hook \in LifecycleHooks, call_ok \in BOOLEAN :
              ExecuteHook(c, id, hook, call_ok)

SpecRegistry == InitRegistry /\ [][NextRegistry]_vars

(***************************************************************************)
(* SpecVerify and SpecSignable: extension signatures.  A manifest.json is  *)
(* the sequence of its top-level fields as written, <<key, value>>; a JSON *)
(* value is a sequence of tokens whose first tells its type ("s" a string, *)
(* "n" a number).  A serialized document is a sequence of tokens as well.  *)
(* Ed25519 and SHA-256 are ideal: a signature names its signer and the     *)
(* hash it was made over, and the hash is one-to-one.                      *)
(***************************************************************************)
\* TRUSTED_PUBLISHERS: publisher id -> public key
TRUSTED_PUBLISHERS == [id \in {"vswrite-official"} |-> "K_official"]

\* the key pairs of the model: the official publisher's and another party's
SigningKeys == {"K_official", "K_other"}

JsonString(str) == <<"s", str>>
JsonNumber(n) == <<"n", n>>
\* Value::as_str
as_str(value) == IF value[1] = "s" THEN Some(value[2]) ELSE NoneValue

\* the keys of a manifest, in the order of their bytes (the order of serde_json's Map)
ManifestKeys ==
    <<"id", "publicKey", "publicKeyId", "signature", "signatureAlgorithm">>

\* serde_json::from_str for an object: the Map of its fields, a later field of the same
\* key replacing an earlier one
RECURSIVE from_str(_)
from_str(text) ==
    IF text = <<>> THEN <<>>
    ELSE map_insert(from_str(Front(text)), Last(text)[1], Last(text)[2])

\* Value::get(key)
json_get(manifest, key) == IF key \in DOMAIN manifest THEN Some(manifest[key]) ELSE NoneValue

\* serde_json::to_string for an object: its fields in the order of their keys from the
\* i-th key of ManifestKeys on, without white space
RECURSIVE fields_to_string(_, _, _)
fields_to_string(manifest, i, first) ==
    IF i > Len(ManifestKeys) THEN <<>>
    ELSE IF ManifestKeys[i] \notin DOMAIN manifest
         THEN fields_to_string(manifest, i + 1, first)
         ELSE (IF first THEN <<>> ELSE <<",">>)
              \o <<ManifestKeys[i], ":">> \o manifest[ManifestKeys[i]]
              \o fields_to_string(manifest, i + 1, FALSE)
json_to_string(manifest) == <<"{">> \o fields_to_string(manifest, 1, TRUE) \o <<"}">>

\* get_signable_content that leaves publicKeyId in place
get_signable_content_KeepsKeyId(manifest) ==
    json_to_string(map_remove(map_remove(manifest, "signature"), "signatureAlgorithm"))

\* get_signable_content(manifest)
get_signable_content(manifest) ==
    json_to_string(map_remove(map_remove(map_remove(manifest, "signature"),
                                    "signatureAlgorithm"), "publicKeyId"))

\* Sha256 of a content
Sha256(content) == <<"sha256">> \o content

\* the Ed25519 signature of signing key over hash, as the base64 string of a manifest
ed25519_sign(key, hash) == <<"sig", key>> \o hash
\* BASE64.decode and Signature::from_slice succeed
is_signature(sig) == Len(sig) >= 2 /\ sig[1] = "sig"
\* VerifyingKey::verify(hash, signature)
ed25519_verify(key, hash, sig) == sig = ed25519_sign(key, hash)

\* SignatureVerification; key_source tells where the verifying key came from
Verdict(is_signed, is_valid, publisher_id, is_trusted, key_source) ==
    [kind |-> "Ok", is_signed |-> is_signed, is_valid |-> is_valid,
     publisher_id |-> publisher_id, is_trusted |-> is_trusted, key_source |-> key_source]
VerifyErr == [kind |-> "Err"]

\* verify_signature that takes the manifest's publicKey before the trusted table
verify_signature_EmbeddedKeyFirst(manifest, signature, public_key_id) ==
    LET is_trusted == public_key_id \in DOMAIN TRUSTED_PUBLISHERS
        embedded == IF json_get(manifest, "publicKey") = NoneValue THEN NoneValue
                    ELSE as_str(unwrap(json_get(manifest, "publicKey")))
        public_key == IF embedded # NoneValue THEN embedded
                      ELSE IF is_trusted THEN Some(TRUSTED_PUBLISHERS[public_key_id])
                      ELSE NoneValue
        key_source == IF embedded # NoneValue THEN "embedded" ELSE "table"
    IN  IF public_key = NoneValue
        THEN Verdict(TRUE, FALSE, Some(public_key_id), FALSE, "none")
        ELSE IF unwrap(public_key) \notin SigningKeys THEN VerifyErr
        ELSE IF ~is_signature(signature) THEN VerifyErr
        ELSE Verdict(TRUE,
                     ed25519_verify(unwrap(public_key),
                                    Sha256(get_signable_content(manifest)), signature),
                     Some(public_key_id), is_trusted, key_source)

\* verify_signature(manifest, signature_b64, public_key_id)
verify_signature(manifest, signature, public_key_id) ==
    LET is_trusted == public_key_id \in DOMAIN TRUSTED_PUBLISHERS
        embedded == IF json_get(manifest, "publicKey") = NoneValue THEN NoneValue
                    ELSE as_str(unwrap(json_get(manifest, "publicKey")))
        public_key == IF is_trusted THEN Some(TRUSTED_PUBLISHERS[public_key_id])
                      ELSE embedded
        key_source == IF is_trusted THEN "table" ELSE "embedded"
    IN  IF public_key = NoneValue
        THEN Verdict(TRUE, FALSE, Some(public_key_id), FALSE, "none")
        ELSE IF unwrap(public_key) \notin SigningKeys THEN VerifyErr
        ELSE IF ~is_signature(signature) THEN VerifyErr
        ELSE Verdict(TRUE,
                     ed25519_verify(unwrap(public_key),
                                    Sha256(get_signable_content(manifest)), signature),
                     Some(public_key_id), is_trusted, key_source)

\* verify_extension_signature(manifest_path), from the content of the file
verify_extension_signature(manifest_content) ==
    LET manifest == from_str(manifest_content)
        signature == IF json_get(manifest, "signature") = NoneValue THEN NoneValue
                     ELSE as_str(unwrap(json_get(manifest, "signature")))
        public_key_id == IF json_get(manifest, "publicKeyId") = NoneValue THEN NoneValue
                         ELSE as_str(unwrap(json_get(manifest, "publicKeyId")))
    IN  IF signature # NoneValue /\ public_key_id # NoneValue
        THEN verify_signature(manifest, unwrap(signature), unwrap(public_key_id))
        ELSE IF signature # NoneValue
        THEN Verdict(TRUE, FALSE, NoneValue, FALSE, "none")
        ELSE Verdict(FALSE, FALSE, NoneValue, FALSE, "none")

\* The manifests of the model before they are signed: an id, with or without an
\* embedded publicKey (a key or a string that is no key), a publicKeyId and a
\* signatureAlgorithm.
UnsignedManifests ==
    { [k \in {"id"} \cup pk[1] \cup kid[1] \cup alg |->
          CASE k = "id" -> JsonString(id)
            [] k = "publicKey" -> JsonString(pk[2])
            [] k = "publicKeyId" -> JsonString(kid[2])
            [] k = "signatureAlgorithm" -> JsonString("ed25519")] :
        id \in {"ext-a", "ext-b"},
        pk \in {<<{}, "">>, <<{"publicKey"}, "K_other">>, <<{"publicKey"}, "not-a-key">>},
        kid \in {<<{}, "">>, <<{"publicKeyId"}, "vswrite-official">>,
                 <<{"publicKeyId"}, "someone">>},
        alg \in {{}, {"signatureAlgorithm"}} }

\* the manifest the official publisher has signed
ReleasedManifest ==
    [k \in {"id", "publicKeyId"} |->
        IF k = "id" THEN JsonString("ext-a") ELSE JsonString("vswrite-official")]

\* The signature fields a manifest m can carry: none, a number, a string that is no
\* signature, the other party's signature of m, and the official publisher's
\* signature of the released manifest (its private key signs nothing else).
SignatureFields(m) ==
    { <<{}, <<>>>>,
      <<{"signature"}, JsonNumber(<<"1">>)>>,
      <<{"signature"}, JsonString(<<"garbage">>)>>,
      <<{"signature"}, JsonString(ed25519_sign("K_other", Sha256(get_signable_content(m))))>>,
      <<{"signature"},
        JsonString(ed25519_sign("K_official", Sha256(get_signable_content(ReleasedManifest))))>> }

SignedManifests ==
    UNION { { [k \in DOMAIN m \cup sig[1] |-> IF k = "signature" THEN sig[2] ELSE m[k]] :
                sig \in SignatureFields(m) } : m \in UnsignedManifests }

\* a manifest.json holding the fields of m, keys ascending from the i-th on or descending
RECURSIVE WriteManifest(_, _, _)
WriteManifest(m, i, ascending) ==
    IF i > Len(ManifestKeys) THEN <<>>
    ELSE LET field == IF ManifestKeys[i] \in DOMAIN m
                      THEN << <<ManifestKeys[i], m[ManifestKeys[i]]>> >> ELSE <<>>
         IN  IF ascending THEN field \o WriteManifest(m, i + 1, ascending)
             ELSE WriteManifest(m, i + 1, ascending) \o field

ManifestFiles == { WriteManifest(m, 1, asc) : m \in SignedManifests, asc \in BOOLEAN }

VerifyInputs == { [entry |-> "verify", manifest |-> f] : f \in ManifestFiles }

InitVerify == InitOf(VerifyInputs, RunCalls)

VerifyExtensionSignature(c) ==
    /\ pc[c] = "verify_extension_signature"
    /\ run' = [run EXCEPT ![c].result = verify_extension_signature(input[c].manifest)]
    /\ pc' = [pc EXCEPT ![c] = "returned"]
    /\ UNCHANGED <<input, running_tasks, cancelled, approvalVars, event_tx, sink,
                   emitted, dispatched, sessions, audit_log, registry>>

NextVerify == \E c \in RunCalls : VerifyExtensionSignature(c)

SpecVerify == InitVerify /\ [][NextVerify]_vars

\* SpecSignable: get_signable_content applied to two manifests
SignableCalls == {1, 2}
SignableInputs == { [entry |-> "signable", manifest |-> f] : f \in ManifestFiles }

InitSignable == InitOf(SignableInputs, SignableCalls)

GetSignableContent(c) ==
    /\ pc[c] = "get_signable_content"
    /\ run' = [run EXCEPT ![c].result =
                  [kind |-> "Ok", content |-> get_signable_content(from_str(input[c].manifest))]]
    /\ pc' = [pc EXCEPT ![c] = "returned"]
    /\ UNCHANGED <<input, running_tasks, cancelled, approvalVars, event_tx, sink,
                   emitted, dispatched, sessions, audit_log, registry>>

NextSignable == \E c \in SignableCalls : GetSignableContent(c)

SpecSignable == InitSignable /\ [][NextSignable]_vars

(***************************************************************************)
(* SpecSandbox: the interpreter of create_lua_runtime.  A Lua state is its *)
(* tables by name, "_G" the table of globals and "loaded" package.loaded;  *)
(* a value is "nil", "fn:<name>" or "tbl:<table>".  A script is a chain of *)
(* look-ups from the globals: indexing a table, calling require on a       *)
(* module name, or calling getmetatable on a string.                       *)
(***************************************************************************)
MaxExprLen == 2

LuaNil == "nil"
LuaVersions == {"lua51", "lua54"}

\* the functions of the base library by version
BaseFunctions(version) ==
    {"assert", "collectgarbage", "dofile", "error", "getmetatable", "load", "loadfile",
     "pairs", "pcall", "print", "rawequal", "rawget", "rawset", "require", "setmetatable"}
    \cup (IF version = "lua51" THEN {"loadstring", "newproxy"} ELSE {"rawlen"})

\* the library tables that Lua::new opens (StdLib::ALL_SAFE: every library but debug)
SafeLibraries == {"io", "os", "package", "string"}

LibraryFields(lib) ==
    CASE lib = "io" -> [f \in {"open", "popen"} |-> "fn:io." \o f]
      [] lib = "os" -> [f \in {"execute", "remove"} |-> "fn:os." \o f]
      [] lib = "string" -> [f \in {"dump", "format"} |-> "fn:string." \o f]
      [] lib = "package" -> [f \in {"loaded"} |-> "tbl:loaded"]

\* Lua::new()
Lua_new(version) ==
    [t \in {"_G", "loaded", "strmeta"} \cup SafeLibraries |->
        CASE t = "_G" ->
                [g \in BaseFunctions(version) \cup SafeLibraries \cup {"_G"} |->
                    IF g \in BaseFunctions(version) THEN "fn:" \o g ELSE "tbl:" \o g]
          [] t = "loaded" -> [m \in SafeLibraries \cup {"_G"} |-> "tbl:" \o m]
          [] t = "strmeta" -> [f \in {"__index"} |-> "tbl:string"]
          [] OTHER -> LibraryFields(t)]

\* Table::set(key, value) on table t; setting nil removes the key
table_set(lua, t, key, value) ==
    [lua EXCEPT ![t] = IF value = LuaNil THEN [k \in DOMAIN @ \ {key} |-> @[k]]
                       ELSE [k \in DOMAIN @ \cup {key} |-> IF k = key THEN value ELSE @[k]]]

\* the globals that sandbox_lua sets to nil, in its order
SandboxedGlobals ==
    <<"os", "io", "debug", "package", "loadfile", "dofile", "load", "loadstring",
      "rawget", "rawset", "rawequal", "rawlen", "collectgarbage", "newproxy">>

RECURSIVE set_globals_nil(_, _)
set_globals_nil(lua, i) ==
    IF i > Len(SandboxedGlobals) THEN lua
    ELSE set_globals_nil(table_set(lua, "_G", SandboxedGlobals[i], LuaNil), i + 1)

\* sandbox_lua(lua)
sandbox_lua(lua) ==
    LET cleared == set_globals_nil(lua, 1) IN
    IF "string" \in DOMAIN cleared["_G"] /\ cleared["_G"]["string"] = "tbl:string"
    THEN table_set(cleared, "string", "dump", LuaNil)
    ELSE cleared

ToolsFields == {"read_file", "write_file", "run_shell", "entities"}

\* create_tools_table(lua, ctx)
create_tools_table(lua) ==
    [t \in DOMAIN lua \cup {"tools", "entities"} |->
        CASE t = "tools" -> [f \in ToolsFields |->
                                IF f = "entities" THEN "tbl:entities" ELSE "fn:tools." \o f]
          [] t = "entities" -> [f \in {"get"} |-> "fn:tools.entities.get"]
          [] OTHER -> lua[t]]

\* add_utilities(lua)
add_utilities(lua) ==
    table_set(table_set(table_set(lua, "_G", "json_decode", "fn:json_decode"),
                        "_G", "json_encode", "fn:json_encode"),
              "_G", "print", "fn:host_print")

\* create_lua_runtime(ctx)
create_lua_runtime(version) ==
    add_utilities(table_set(create_tools_table(sandbox_lua(Lua_new(version))),
                            "_G", "tools", "tbl:tools"))

\* One look-up of a script: value[name] for a table, require(name), getmetatable(name)
lua_index(lua, value, name) ==
    CASE value = "fn:require" ->
            IF name \in DOMAIN lua["loaded"] THEN lua["loaded"][name] ELSE LuaNil
      [] value = "fn:getmetatable" -> IF name = "" THEN "tbl:strmeta" ELSE LuaNil
      [] value \in { "tbl:" \o t : t \in DOMAIN lua } ->
            LET t == CHOOSE x \in DOMAIN lua : value = "tbl:" \o x IN
            IF name \in DOMAIN lua[t] THEN lua[t][name] ELSE LuaNil
      [] OTHER -> LuaNil

\* the value a script reaches from the globals by a chain of look-ups
RECURSIVE lua_eval(_, _)
lua_eval(lua, expr) ==
    IF expr = <<>> THEN "tbl:_G"
    ELSE lua_index(lua, lua_eval(lua, Front(expr)), Last(expr))

\* the names scripts use
ScriptNames ==
    {"os", "io", "debug", "package", "require", "loadfile", "dofile", "load", "loadstring",
     "rawget", "rawset", "rawequal", "rawlen", "collectgarbage", "newproxy", "string",
     "dump", "_G", "tools", "json_encode", "json_decode", "print", "getmetatable", "",
     "__index", "loaded", "execute", "open", "read_file", "entities"}

SandboxInputs ==
    { [entry |-> "lua", version |-> v, script |-> e] :
        v \in LuaVersions, e \in SeqsUpTo(ScriptNames, MaxExprLen) }

InitSandbox == InitOf(SandboxInputs, RunCalls)

sandboxOther ==
    <<input, running_tasks, cancelled, approvalVars, event_tx, sink, emitted, dispatched,
      sessions, audit_log, registry>>

CreateLuaRuntime(c) ==
    /\ pc[c] = "create_lua_runtime"
    /\ run' = [run EXCEPT ![c].result =
                  [kind |-> "lua", lua |-> create_lua_runtime(input[c].version)]]
    /\ pc' = [pc EXCEPT ![c] = "call_function"]
    /\ UNCHANGED sandboxOther

\* call_function: the script runs in the interpreter just created
CallFunction(c) ==
    /\ pc[c] = "call_function"
    /\ run' = [run EXCEPT ![c].result =
                  [kind |-> "Ok", lua |-> run[c].result.lua,
                   value |-> lua_eval(run[c].result.lua, input[c].script)]]
    /\ pc' = [pc EXCEPT ![c] = "returned"]
    /\ UNCHANGED sandboxOther

NextSandbox == \E c \in RunCalls : CreateLuaRuntime(c) \/ CallFunction(c)

SpecSandbox == InitSandbox /\ [][NextSandbox]_vars

(***************************************************************************)
(* SpecSnapshot: a run beside the registry's writers.  Call 1 is a call of *)
(* run_native_agent in AutoApprove mode whose LLM asks for the built-in    *)
(* read_file and for the extension tool e:a; call 2 meanwhile loads and    *)
(* unloads extension e (with tool a, or with tool b instead) through the   *)
(* shared registry, up to MaxRegistryOps times.                            *)
(***************************************************************************)
SnapshotRuns == {1}
SnapshotWriters == {2}

SnapshotInputs ==
    { [entry |-> "command", task_ok |-> TRUE, messages |-> <<>>,
        config |-> Config(TRUE, TRUE, "AutoApprove", MaxIterBound)],
      [entry |-> "registry"] }

InitSnapshot ==
    /\ InitOf(SnapshotInputs, SnapshotRuns \cup SnapshotWriters)
    /\ \A c \in SnapshotRuns : input[c].entry = "command"
    /\ \A c \in SnapshotWriters : input[c].entry = "registry"

\* the directories of extension e whose load succeeds
SnapshotDirs ==
    { d \in ExtensionDirs :
        /\ d.manifest # NoneValue
        /\ unwrap(d.manifest).id = <<"e">>
        /\ load_extension(ExtensionRegistry_new, d).ok }

SnapshotFunctionCalls ==
    { [name |-> <<"read_file">>, args |-> "ok"],
      [name |-> <<"e", ":", "a">>, args |-> "ok"] }

LlmReturnSnapshot(c) ==
    LlmReturnOf(c,
        { [kind |-> "final", msg |-> <<>>, names |-> <<>>] }
        \cup { [kind |-> "tools", msg |-> <<>>, names |-> ns] :
                 ns \in SeqsUpTo(SnapshotFunctionCalls,
                                 MaxToolCalls - run[c].llm_tool_calls) \ {<<>>} })

NextSnapshot ==
    \/ \E c \in SnapshotRuns :
        \/ Validate(c) \/ CheckLimit(c) \/ Register(c) \/ Convert(c)
        \/ AgentStart(c) \/ LoopTop(c) \/ LlmReturnSnapshot(c) \/ ToolTop(c)
        \/ ExecuteTool(c) \/ Finish(c)
    \/ \E c \in SnapshotWriters :
        \/ \E dir \in SnapshotDirs : LoadExtension(c, dir)
        \/ \E id \in {<<"e">>} : UnloadExtension(c, id)

SpecSnapshot == InitSnapshot /\ [][NextSnapshot]_vars

(***************************************************************************)
(* SpecIso: two calls of run_native_agent at the same time, both in        *)
(* ApproveAll mode with one iteration, whose LLM asks for a delete_file    *)
(* call, so that both have an approval wait open while the UI cancels and  *)
(* answers.                                                                *)
(***************************************************************************)
IsoCalls == {1, 2}

IsoInputs ==
    { [entry |-> "command", task_ok |-> TRUE, messages |-> <<>>,
        config |-> Config(TRUE, TRUE, "ApproveAll", 1)] }

InitIso == InitOf(IsoInputs, IsoCalls)

IsoApprovalIds == { ApprovalId(c, n) : c \in IsoCalls, n \in {1} }

LlmReturnIso(c) ==
    LlmReturnOf(c, { [kind |-> "final", msg |-> <<>>, names |-> <<>>],
                     [kind |-> "tools", msg |-> <<>>,
                      names |-> <<[name |-> <<"delete_file">>, args |-> "ok"]>>] })

NextIso ==
    \/ \E c \in IsoCalls :
        \/ Validate(c) \/ CheckLimit(c) \/ Register(c) \/ Convert(c)
        \/ AgentStart(c) \/ LoopTop(c) \/ LlmReturnIso(c) \/ ToolTop(c)
        \/ ApprovalRegister(c) \/ ApprovalEmit(c)
        \/ WaitCancelled(c) \/ CancelCleanup(c) \/ WaitResponse(c) \/ WaitTimeout(c)
        \/ ApprovalCleanup(c) \/ ExecuteTool(c)
        \/ Finish(c) \/ Forward(c)
        \/ cancel_agent_task(c)
    \/ \E a \in IsoApprovalIds, approved \in BOOLEAN :
        \/ RespondRemove(a, approved)
        \/ RespondSend(a, approved)

SpecIso == InitIso /\ [][NextIso]_vars

(***************************************************************************)
(* Properties.                                                             *)
(***************************************************************************)
Terminal(e) == e.type \in {"Complete", "Error", "Cancelled"}
Indices(seq, P(_)) == { i \in 1..Len(seq) : P(seq[i]) }
IsPrefix(s, t) == Len(s) <= Len(t) /\ \A i \in 1..Len(s) : s[i] = t[i]
Range(seq) == { seq[i] : i \in 1..Len(seq) }

\* the call was admitted and ran the agent loop, has returned, and the forwarder
\* has delivered everything the loop sent
Quiescent(c) ==
    /\ input[c].entry = "command"
    /\ pc[c] = "returned"
    /\ run[c].result # ResRejected
    /\ event_tx[c] = <<>>

\* C1: every run started through run_native_agent delivers exactly one of Complete,
\* Error, Cancelled to the UI sink, and nothing of that run is delivered after it.
C1_ExactlyOneTerminalEventLast ==
    \A c \in Calls :
        /\ input[c].entry = "command" =>
              \A i \in Indices(sink[c], Terminal) : i = Len(sink[c])
        /\ Quiescent(c) => Cardinality(Indices(sink[c], Terminal)) = 1

\* the approval a mode asks for, as the claim words it
ClaimNeedsApproval(mode, risk) ==
    \/ mode = "ApproveDangerous" /\ risk = High
    \/ mode = "ApproveWrites" /\ risk \in {Medium, High}
    \/ mode = "ApproveAll"

\* respond_tool_approval has delivered `true` for the approval id minted for tool call t
ApprovedByResponder(c, t) ==
    \E p \in run[c].approvals : p[1] = t /\ p[2] \in delivered

IsToolCallStart(e) == e.type = "ToolCallStart"

\* C2: with a command-surface run in mode ApproveDangerous, ApproveWrites or ApproveAll,
\* a tool call whose risk needs approval is dispatched, and its ToolCallStart emitted,
\* only after respond_tool_approval delivered `true` for the approval id minted for it.
C2_DispatchOnlyAfterApproval ==
    \A c \in Calls :
        input[c].entry = "command" =>
            /\ \A tc \in Range(dispatched[c]) :
                  ClaimNeedsApproval(input[c].config.approval_mode, for_tool(tc.name))
                      => ApprovedByResponder(c, tc.id)
            /\ \A i \in Indices(emitted[c], IsToolCallStart) :
                  ClaimNeedsApproval(input[c].config.approval_mode, for_tool(emitted[c][i].name))
                      => ApprovedByResponder(c, emitted[c][i].tool_call_id)

C2_Witness ==
    \E c \in Calls :
        /\ input[c].entry = "command"
        /\ input[c].config.approval_mode = "ApproveWrites"
        /\ \E tc \in Range(dispatched[c]) :
              /\ for_tool(tc.name) = Medium
              /\ ApprovedByResponder(c, tc.id)
        /\ run[c].denied # {}

\* C3: the running-tasks map never holds more than MAX_CONCURRENT_RUNS entries, and
\* a call inserts its entry only in a step in which the map held fewer than that.
C3_ConcurrencyCap ==
    /\ [](Cardinality(running_tasks) <= MAX_CONCURRENT_RUNS)
    /\ [][\A c \in CapCalls :
            (TaskId(c) \in running_tasks' /\ TaskId(c) \notin running_tasks)
                => Cardinality(running_tasks) < MAX_CONCURRENT_RUNS]_vars

\* three runs are registered and a further call with good arguments was turned away
C3_Witness ==
    /\ Cardinality(running_tasks) = MAX_CONCURRENT_RUNS
    /\ \E c \in Calls :
          /\ into_agent_config(input[c].config)
          /\ pc[c] = "returned"
          /\ run[c].result = ResRejected

\* C4: every entry run_native_agent inserts into the running-tasks map is removed
\* before the call returns, so with no call in progress the map is empty.
C4_EntryRemovedOnReturn ==
    /\ \A c \in Calls : pc[c] = "returned" => TaskId(c) \notin running_tasks
    /\ (\A c \in Calls : pc[c] = "returned") => running_tasks = {}

IsCancelledEvent(e) == e.type = "Cancelled"
IsErrorEvent(e) == e.type = "Error"

\* C5: a run that ends because its handle was cancelled emits Cancelled and no Error,
\* and its session becomes Cancelled.
C5_CancelledNotError ==
    \A c \in Calls :
        (Quiescent(c) /\ run[c].result = ErrCancelled) =>
            /\ Indices(sink[c], IsCancelledEvent) # {}
            /\ Indices(sink[c], IsErrorEvent) = {}
            /\ sessions[SessionId(c)].status = "Cancelled"

IsApprovalRequired(e) == e.type = "ToolApprovalRequired"

\* C6: from the moment ToolApprovalRequired(A) is emitted by a run with an approval
\* store, the map holds A until a responder takes it or the wait ends.
C6_RegisteredBeforeEmitted ==
    \A c \in Calls :
        HasStore(c) =>
            \A i \in Indices(emitted[c], IsApprovalRequired) :
                LET a == emitted[c][i].approval_id IN
                    \/ a \in tool_approvals
                    \/ \E b \in BOOLEAN : <<a, b>> \in responding
                    \/ a \in DOMAIN oneshot /\ oneshot[a] # "pending"

\* the UI has seen the request, the run waits, and the entry is there to be found
C6_Witness ==
    \E c \in Calls :
        /\ pc[c] = "approval_wait"
        /\ \E i \in Indices(sink[c], IsApprovalRequired) :
              /\ sink[c][i].approval_id = run[c].approval_id
              /\ sink[c][i].approval_id \in tool_approvals

\* the approval ids call c has minted whose wait is over
PastApprovals(c) ==
    { p[2] : p \in { q \in run[c].approvals :
                       \/ q[2] # run[c].approval_id
                       \/ pc[c] \notin {"approval_emit", "approval_wait",
                                        "approval_cancelled", "approval_cleanup"} } }

\* C7: once an approval wait is over (response, timeout or cancellation) the approvals
\* map has no entry for its id; a call that has returned has left none behind.
C7_NoApprovalEntryLeft ==
    \A c \in Calls : PastApprovals(c) \cap tool_approvals = {}

\* a call whose approval wait was ended by the cancellation has returned
C7_Witness ==
    \E c \in Calls :
        /\ pc[c] = "returned"
        /\ run[c].minted > 0
        /\ run[c].result = ErrCancelled
        /\ ~ \E i \in Indices(emitted[c], IsCancelledEvent) : TRUE

NeedsApprovalNoStore(c, tc) ==
    /\ ~ HasStore(c)
    /\ input[c].config.approval_mode \notin {"AutoApprove", "DryRun"}
    /\ needs_approval(input[c].config.approval_mode, for_tool(tc.name))

\* the tool calls of call c that the loop has finished with
ProcessedToolCalls(c) ==
    { m.tool_call_id : m \in { x \in Range(run[c].conversation) : x.role = "tool" } }

StartsWith(text, word) == Len(text) >= 1 /\ text[1] = word

\* C8 as claimed: a tool call that needs approval in a run without an approval store
\* is denied: not dispatched, and a denial recorded as its result.
C8_DeniedWithoutStore ==
    \A c \in Calls :
        /\ \A tc \in Range(dispatched[c]) : ~ NeedsApprovalNoStore(c, tc)
        /\ \A m \in Range(run[c].conversation) :
              (/\ m.role = "tool"
               /\ \E tc \in Range(run[c].tool_calls) :
                     tc.id = m.tool_call_id /\ NeedsApprovalNoStore(c, tc))
                  => StartsWith(m.content, "DENIED:")

\* C8 as the code has it: such a tool call is approved without anyone being asked: it
\* is dispatched, no denial is recorded, and its result is the dispatcher's.
C8_ApprovedWithoutStore ==
    \A c \in Calls :
        ~ HasStore(c) =>
            /\ run[c].denied = {}
            /\ \A p \in run[c].approvals :
                  \/ pc[c] \in {"approval_emit", "tool_start"} /\ CurrentToolCall(c).id = p[1]
                  \/ /\ \E tc \in Range(dispatched[c]) : tc.id = p[1]
                     /\ \E m \in Range(run[c].conversation) :
                           /\ m.role = "tool"
                           /\ m.tool_call_id = p[1]
                           /\ ~ StartsWith(m.content, "DENIED:")

C8_Witness ==
    \E c \in Calls :
        /\ ~ HasStore(c)
        /\ input[c].config.approval_mode = "ApproveDangerous"
        /\ \E tc \in Range(dispatched[c]) : for_tool(tc.name) = High
        /\ pc[c] = "returned"

\* what must be true of a denied tool call t of call c once the denial is handled
DenialHandled(c, t) ==
    /\ \A tc \in Range(dispatched[c]) : tc.id # t
    /\ \A i \in Indices(emitted[c], IsToolCallStart) : emitted[c][i].tool_call_id # t
    /\ \E i \in 1..Len(emitted[c]) :
          /\ emitted[c][i].type = "ToolCallComplete"
          /\ emitted[c][i].tool_call_id = t
          /\ emitted[c][i].success = FALSE
          /\ StartsWith(emitted[c][i].result, "DENIED:")
    /\ \E m \in Range(run[c].conversation) :
          m.role = "tool" /\ m.tool_call_id = t

\* C9: a denied tool call (the responder sent `false`, or the wait timed out) is not
\* dispatched and gets no ToolCallStart; a ToolCallComplete with success=false and a
\* DENIED result is emitted and a tool message with its id appended; and the step that
\* handles the denial goes on to the next tool call instead of ending the run.
C9_DenialSkipsToolAndContinues ==
    /\ [](\A c \in Calls : \A t \in run[c].denied :
            \/ pc[c] = "approval_cleanup" /\ CurrentToolCall(c).id = t
            \/ DenialHandled(c, t))
    /\ [][\A c \in Calls :
            (pc[c] = "approval_cleanup" /\ ~ run[c].approved /\ pc'[c] # pc[c])
                => /\ pc'[c] = "tool_top"
                   /\ run'[c].idx = run[c].idx + 1
                   /\ run'[c].iteration = run[c].iteration
                   /\ run'[c].result = ResNone]_vars

\* after a denial the run went on and finished with a final answer
C9_Witness ==
    \E c \in Calls :
        /\ run[c].denied # {}
        /\ pc[c] = "returned"
        /\ run[c].result = ResOk
        /\ dispatched[c] # <<>>

\* C10: the UI sink receives a run's events in the order the run produced them.
C10_SinkInProductionOrder ==
    \A c \in Calls : IsPrefix(sink[c], emitted[c])

\* C11: a run that leaves a suspension point with its handle cancelled ends as
\* cancelled.  When the LLM call returns to a cancelled run, the run neither emits
\* Complete and succeeds nor goes on to an approval or a dispatch; when the approval
\* wait ends for a cancelled run, the tool is not approved.
C11_CancellationSeenAfterSuspension ==
    [][\A c \in Calls :
          /\ (pc[c] = "llm_call" /\ IsCancelled(c) /\ pc'[c] # pc[c])
                => /\ run'[c].result # ResOk
                   /\ emitted'[c] = emitted[c]
          /\ (pc[c] = "approval_wait" /\ IsCancelled(c) /\ pc'[c] # pc[c])
                => pc'[c] = "approval_cancelled"]_vars

\* C12: once the handle of a run is cancelled, no further tool call of that run is
\* handed to the dispatcher.
C12_NoDispatchAfterCancel ==
    [][\A c \in Calls : IsCancelled(c) => dispatched'[c] = dispatched[c]]_vars

\* C13: a tool dispatch that returns an error does not end the run: a ToolCallComplete
\* with success=false is emitted, a tool message with the error text and the call's id
\* is appended, and the step goes on to the next tool call with the run in progress.
C13_ToolErrorNotFatal ==
    /\ [](\A c \in Calls : \A tc \in Range(dispatched[c]) :
            ~ dispatch_tool(tc).success =>
                /\ HasTx(c) =>
                      \E i \in 1..Len(emitted[c]) :
                          /\ emitted[c][i].type = "ToolCallComplete"
                          /\ emitted[c][i].tool_call_id = tc.id
                          /\ emitted[c][i].success = FALSE
                          /\ emitted[c][i].result = dispatch_tool(tc).output
                /\ \E m \in Range(run[c].conversation) :
                      /\ m.role = "tool"
                      /\ m.tool_call_id = tc.id
                      /\ m.content = dispatch_tool(tc).output
                      /\ StartsWith(m.content, "ERROR:"))
    /\ [][\A c \in Calls :
            (/\ pc[c] = "tool_start"
             /\ ~ dispatch_tool(CurrentToolCall(c)).success
             /\ pc'[c] # pc[c])
                => /\ pc'[c] = "tool_top"
                   /\ run'[c].idx = run[c].idx + 1
                   /\ run'[c].result = ResNone]_vars

\* a run whose tool failed went on and finished with a final answer
C13_Witness ==
    \E c \in Calls :
        /\ HasTx(c)
        /\ \E tc \in Range(dispatched[c]) : ~ dispatch_tool(tc).success
        /\ pc[c] = "returned"
        /\ run[c].result = ResOk

\* every tool call the LLM has returned to call c
ReturnedToolCalls(c) ==
    UNION { Range(m.tool_calls) : m \in { x \in Range(run[c].conversation) : x.role = "assistant" } }

\* the loop of call c is done with tool call tc (ids are <<iteration, position>>)
LoopPassed(c, tc) ==
    \/ tc.id[1] < run[c].iteration
    \/ tc.id[1] = run[c].iteration /\ tc.id[2] < run[c].idx

ToolMessagesFor(c, t) ==
    { i \in 1..Len(run[c].conversation) :
        run[c].conversation[i].role = "tool" /\ run[c].conversation[i].tool_call_id = t }

SkippedEventsFor(c, t) ==
    { i \in 1..Len(emitted[c]) :
        emitted[c][i].type = "ToolSkipped" /\ emitted[c][i].tool_call_id = t }

\* C14: a DryRun run dispatches nothing and requests no approval: it emits no
\* ToolCallStart, ToolCallComplete or ToolApprovalRequired and adds nothing to the
\* approvals map; each tool call the LLM returned gets one ToolSkipped event and one
\* synthetic tool message with its id when the loop comes to it, and never a second.
C14_DryRunDispatchesNothing ==
    \A c \in Calls :
        input[c].config.approval_mode = "DryRun" =>
            /\ dispatched[c] = <<>>
            /\ \A i \in 1..Len(emitted[c]) :
                  emitted[c][i].type \notin {"ToolCallStart", "ToolCallComplete", "ToolApprovalRequired"}
            /\ run[c].minted = 0
            /\ \A n \in 1..MaxToolCalls : ApprovalId(c, n) \notin tool_approvals
            /\ \A tc \in ReturnedToolCalls(c) :
                  /\ Cardinality(ToolMessagesFor(c, tc.id)) = (IF LoopPassed(c, tc) THEN 1 ELSE 0)
                  /\ \A i \in ToolMessagesFor(c, tc.id) :
                        run[c].conversation[i].content = DryRunText
                  /\ HasTx(c) =>
                        Cardinality(SkippedEventsFor(c, tc.id)) = (IF LoopPassed(c, tc) THEN 1 ELSE 0)

\* a DryRun run that skipped two tool calls and finished with a final answer
C14_Witness ==
    \E c \in Calls :
        /\ input[c].config.approval_mode = "DryRun"
        /\ HasTx(c)
        /\ pc[c] = "returned"
        /\ run[c].result = ResOk
        /\ Cardinality({ i \in 1..Len(sink[c]) : sink[c][i].type = "ToolSkipped" }) = 2
        /\ \E tc \in ReturnedToolCalls(c) : for_tool(tc.name) = High

\* C15: in the conversation handed to the LLM, every tool message carries the id of a
\* ToolCall of an assistant message that precedes it.
C15_ToolMessageFollowsItsCall ==
    \A c \in Calls :
        pc[c] = "llm_call" =>
            \A i \in 1..Len(run[c].conversation) :
                run[c].conversation[i].role = "tool" =>
                    \E j \in 1..(i - 1) :
                        /\ run[c].conversation[j].role = "assistant"
                        /\ \E tc \in Range(run[c].conversation[j].tool_calls) :
                              tc.id = run[c].conversation[i].tool_call_id

\* the LLM responses of call c that carried tool calls
ToolResponses(c) ==
    { i \in 1..Len(run[c].conversation) :
        run[c].conversation[i].role = "assistant" /\ run[c].conversation[i].tool_calls # <<>> }

\* C16: a run makes at most max_iterations LLM calls.  When max_iterations calls each
\* returned tool calls and the loop worked through them, the run emits Error and fails
\* with MaxIterationsReached; it succeeds exactly when an LLM call returns no tool
\* calls (every earlier one returned some), and makes no LLM call after that.
C16_AtMostMaxIterationsLlmCalls ==
    /\ [](\A c \in Calls :
            /\ run[c].llm_calls <= input[c].config.max_iterations
            /\ Cardinality(ToolResponses(c)) <= run[c].llm_calls
            /\ (run[c].result # ResNone /\ run[c].iteration = input[c].config.max_iterations)
                  => /\ run[c].result = ErrMaxIterations
                     /\ HasTx(c) => Indices(emitted[c], IsErrorEvent) # {}
            /\ run[c].result = ErrMaxIterations
                  => /\ run[c].llm_calls = input[c].config.max_iterations
                     /\ Cardinality(ToolResponses(c)) = input[c].config.max_iterations
            /\ run[c].result = ResOk
                  => /\ Cardinality(ToolResponses(c)) = run[c].llm_calls - 1
                     /\ run[c].llm_calls >= 1)
    /\ [][\A c \in Calls :
            /\ (/\ pc[c] = "llm_call"
                /\ pc'[c] # pc[c]
                /\ ToolResponses(c) = ToolResponses(c)'
                /\ run'[c].result.kind # "LlmError")
                  => run'[c].result = ResOk
            /\ run[c].result # ResNone => run'[c].llm_calls = run[c].llm_calls]_vars

\* every one of the max_iterations LLM calls of a run returned tool calls
C16_Witness ==
    \E c \in Calls :
        /\ input[c].config.max_iterations = MaxIterBound
        /\ run[c].llm_calls = MaxIterBound
        /\ run[c].result = ErrMaxIterations
        /\ pc[c] = "returned"

\* C17: when run_native_agent has returned for a run with a session, the session is
\* Completed exactly when the run gave a final response, Cancelled exactly when it ended
\* as cancelled, and Failed with the error recorded exactly when it ended with any other
\* error; it is not Active any more.
C17_SessionStatusMatchesOutcome ==
    \A c \in Calls :
        (pc[c] = "returned" /\ SessionId(c) \in DOMAIN sessions) =>
            LET s == sessions[SessionId(c)] IN
                /\ s.status # "Active"
                /\ s.status = "Completed" <=> run[c].result = ResOk
                /\ s.status = "Cancelled" <=> run[c].result = ErrCancelled
                /\ s.status = "Failed" <=> run[c].result.kind \in {"LlmError", "MaxIterationsReached"}
                /\ s.status = "Failed" => s.error = to_string(run[c].result)

Sent(b) == IF b THEN "sent_true" ELSE "sent_false"

\* C18: respond_tool_approval takes the entry out of the map before it delivers, and
\* delivers the value it was given; an id that is not in the map is left alone.  So an
\* approval id gets at most one response, and nothing is delivered for an id once its
\* wait was resolved.
C18_OneResponsePerApproval ==
    /\ [](/\ \A r \in responding : r[1] \notin tool_approvals
          /\ \A r1, r2 \in responding : r1[1] = r2[1] => r1 = r2
          /\ \A a \in DOMAIN oneshot :
                oneshot[a] \in {"sent_true", "sent_false"} => a \notin tool_approvals)
    /\ [][/\ \A r \in responding' \ responding :
                r[1] \in tool_approvals /\ r[1] \notin tool_approvals'
          /\ \A a \in DOMAIN oneshot :
                /\ oneshot[a] # "pending" => oneshot'[a] \in {oneshot[a], "closed"}
                /\ (oneshot[a] = "pending" /\ oneshot'[a] \in {"sent_true", "sent_false"})
                      => \E b \in BOOLEAN : /\ <<a, b>> \in responding
                                            /\ <<a, b>> \notin responding'
                                            /\ oneshot'[a] = Sent(b)
                /\ a \notin tool_approvals => a \notin tool_approvals']_vars

\* a responder took the entry, and the wait was resolved by the timeout or the
\* cancellation before it sent
C18_Witness ==
    \E r \in responding :
        /\ oneshot[r[1]] = "closed"
        /\ r[1] \notin delivered
        /\ r[2] = TRUE

\* C19: a call of run_native_agent that was rejected (its arguments, the concurrency
\* cap, or its configuration) has emitted no event and has no session.
C19_RejectedBeforeEventAndSession ==
    \A c \in Calls :
        run[c].result = ResRejected =>
            /\ emitted[c] = <<>>
            /\ sink[c] = <<>>
            /\ event_tx[c] = <<>>
            /\ SessionId(c) \notin DOMAIN sessions

\* three runs are registered and have started; a further call was turned away
\* without a trace, and so was a call with a configuration out of range
C19_Witness ==
    /\ Cardinality(running_tasks) = MAX_CONCURRENT_RUNS
    /\ \E c, d, e \in Calls :
          /\ into_agent_config(input[c].config)
          /\ run[c].result = ResRejected
          /\ emitted[c] = <<>>
          /\ ~ input[d].config.valid
          /\ run[d].result = ResRejected
          /\ emitted[e] # <<>>

\* the calls of safe_path that returned
SafePathReturned(c) == input[c].entry = "safe_path" /\ pc[c] = "returned"
\* a workspace that is a plain directory given by its canonical path
PlainWorkspace(w) == canonicalize(w).ok /\ canonicalize(w).path = w /\ ~is_sensitive_path(w)

\* C20: safe_path(w, p) returns an error or a path that has the canonical form of
\* w as a prefix, whatever p is (relative or absolute, existing or not, with or
\* without ".."); for an empty p or "." a path it returns is the canonical
\* workspace root, and it returns one when w is a plain directory.
C20_SafePathWithinWorkspace ==
    \A c \in Calls : SafePathReturned(c) =>
        LET w == input[c].workspace
            p == input[c].requested
            r == run[c].result
        IN  /\ r.kind \in {"Ok", "Err"}
            /\ r.kind = "Ok" =>
                /\ canonicalize(w).ok
                /\ Len(canonicalize(w).path) <= Len(r.path)
                /\ SubSeq(r.path, 1, Len(canonicalize(w).path)) = canonicalize(w).path
                /\ \A i \in 1..Len(r.path) : r.path[i] \notin {".", ".."}
            /\ IsRootRequest(p) =>
                /\ r.kind = "Ok" => r.path = canonicalize(w).path
                /\ PlainWorkspace(w) => r.kind = "Ok"

\* an existing path outside the workspace, reached with "..", was refused, and "."
\* was resolved to the workspace root
C20_Witness ==
    \E c \in Calls :
        /\ SafePathReturned(c)
        /\ input[c].workspace = <<"ws">>
        /\ input[c].requested = [abs |-> FALSE, comps |-> <<"..", "out">>]
        /\ run[c].result.kind = "Err"
        /\ safe_path(<<"ws">>, [abs |-> FALSE, comps |-> <<".">>]) = SafeOk(<<"ws">>)
        /\ safe_path(<<"ws">>, [abs |-> FALSE, comps |-> <<"sub", "new">>]).kind = "Ok"

\* the requested path is relative, the workspace is a plain directory, and the
\* target or a component between the workspace and the target is a symbolic link
SymlinkOnTheWay(w, p) ==
    /\ PlainWorkspace(w)
    /\ ~p.abs
    /\ \E k \in 1..Len(p.comps) : is_symlink(w \o SubSeq(p.comps, 1, k))

\* C21: safe_path never returns Ok for a requested path whose target or one of whose
\* components below the workspace is a symbolic link, whether the link's target
\* exists or not and wherever it points; it fails with "Symlinks not allowed".
C21_SymlinkNeverAccepted ==
    \A c \in Calls :
        (SafePathReturned(c) /\ SymlinkOnTheWay(input[c].workspace, input[c].requested)) =>
            run[c].result = SafeErr("Symlinks not allowed")

\* the names of the model that the sensitive patterns of the specification match
\* (`.env`, `keychain*`), and its sensitive path segments
SpecSensitiveNames == {".env", "keychain"}
SpecSensitiveSegments == {".ssh"}

\* the requested path is relative, has no "." or ".." and no symlink on its way, and
\* its file name is sensitive or one of its segments, the last one included, is
SensitiveRequest(w, p) ==
    /\ PlainWorkspace(w)
    /\ ~p.abs /\ p.comps # <<>>
    /\ \A i \in 1..Len(p.comps) : p.comps[i] \notin {".", ".."}
    /\ ~SymlinkOnTheWay(w, p)
    /\ \/ Last(p.comps) \in SpecSensitiveNames
       \/ \E i \in 1..Len(p.comps) : p.comps[i] \in SpecSensitiveSegments

\* C22: safe_path fails, with "Access denied", for every requested path whose file
\* name matches a sensitive pattern or which has a sensitive segment such as .ssh,
\* also as its last segment, whether or not the file exists.
C22_SensitivePathDenied ==
    \A c \in Calls :
        (SafePathReturned(c) /\ SensitiveRequest(input[c].workspace, input[c].requested)) =>
            run[c].result = SafeErr("Access denied")

\* C23: every path a built-in tool opens, lists or names in its result is a path
\* safe_path accepts for the workspace: the path argument, the files of grep's
\* directory walk and the matches of glob included.
C23_ToolsTouchOnlySafePaths ==
    \A c \in Calls :
        (input[c].entry = "tool" /\ pc[c] = "returned") =>
            \A t \in run[c].result.touched :
                safe_path(input[c].workspace, [abs |-> TRUE, comps |-> t]).kind = "Ok"

\* the last n elements of a sequence
LastN(seq, n) == IF Len(seq) <= n THEN seq ELSE SubSeq(seq, Len(seq) - n + 1, Len(seq))

\* C24: the audit log never holds more than 1000 entries; an operation that appends
\* an entry leaves the last 1000 of the old log followed by the entry, and every other
\* operation leaves the log as it is.  So the log is always the most recently
\* appended entries in their append order.
C24_AuditLogKeepsNewest ==
    /\ [](Len(audit_log) <= 1000)
    /\ [][\A c \in Calls :
            IF emitted'[c] # emitted[c]
            THEN /\ input[c].entry = "store" => Len(emitted'[c]) = Len(emitted[c]) + 1
                 /\ input[c].entry = "store" =>
                        audit_log' = LastN(Append(audit_log, emitted'[c][Len(emitted'[c])]), 1000)
            ELSE (\A d \in Calls : emitted'[d] = emitted[d]) => audit_log' = audit_log]_vars

\* the log is full and the entry appended last is a thread's session start, the
\* prefilled log's oldest entries having been drained
C24_Witness ==
    /\ Len(audit_log) = max_audit_entries
    /\ audit_log[1] # PrefilledLog[1]
    /\ audit_log[Len(audit_log)].event_type = "SessionStart"
    /\ audit_log[Len(audit_log) - 1].event_type = "ToolCall"

\* C25: the session store never holds more than 100 sessions, however many of them
\* are Active.
C25_AtMostMaxSessions == Cardinality(DOMAIN sessions) <= 100

\* the step is an operation op of the registry by caller c
RegistryStep(c, op) ==
    /\ pc[c] = "registry"
    /\ run'[c].iteration = run[c].iteration + 1
    /\ run'[c].result.op = op

\* C26: load_extension returns Err for every manifest whose id is not 1 to 64
\* characters out of letters, digits, hyphen and underscore, and a load that returns
\* Err leaves the registry as it was: no extension and no tool mapping registered.
C26_LoadRejectsInvalidId ==
    [][\A c \in RunCalls :
         RegistryStep(c, "load_extension") =>
            LET dir == run'[c].result.dir IN
            /\ (dir.manifest # NoneValue /\ ~validate_extension_id(unwrap(dir.manifest).id))
                  => ~run'[c].result.ok
            /\ ~run'[c].result.ok => registry' = registry]_vars

\* the names of the form id:...
NamedFor(id, names) == { n \in names : IsPrefix(id \o <<":">>, n) }

\* C27: after unload_extension(id) returned Ok, id is not in list_extensions, no tool
\* of get_extension_tool_schemas is named id:..., and is_extension_tool is false for
\* every name id:..., whatever loads came before.
C27_UnloadRemovesEveryTrace ==
    [][\A c \in RunCalls :
         (RegistryStep(c, "unload_extension") /\ run'[c].result.ok) =>
            LET id == run'[c].result.id IN
            /\ id \notin list_extensions(registry')
            /\ NamedFor(id, get_extension_tool_schemas(registry')) = {}
            /\ \A n \in NamedFor(id, DOMAIN registry.tool_to_extension
                                       \cup DOMAIN registry'.tool_to_extension) :
                  ~is_extension_tool(registry', n)]_vars

\* the extension is loaded, its lifecycle section enables the hook, and a hooks.lua
\* was loaded for it
HookAllowed(reg, id, hook) ==
    /\ id \in list_extensions(reg)
    /\ reg.extensions[id].manifest.lifecycle # NoneValue
    /\ is_enabled(unwrap(reg.extensions[id].manifest.lifecycle), hook)
    /\ reg.extensions[id].hooks_script

\* C28: execute_hook runs script code only if the extension is loaded, its lifecycle
\* section enables the hook and a hooks.lua was loaded; in every other case it
\* returns Err or a HookResult with success = false.
C28_HookRunsOnlyWhenEnabled ==
    [][\A c \in RunCalls :
         RegistryStep(c, "execute_hook") =>
            LET ret == run'[c].result.ret
                allowed == HookAllowed(registry, run'[c].result.id, run'[c].result.hook)
            IN /\ ret.ran => allowed
               /\ ~allowed => (ret.kind = "Err" \/ ~ret.success)]_vars

\* the manifest without its fields signature, signatureAlgorithm and publicKeyId
Stripped(manifest) ==
    [k \in DOMAIN manifest \ {"signature", "signatureAlgorithm", "publicKeyId"} |-> manifest[k]]

\* the string value of a field of the manifest, if it has one
StringField(manifest, key) ==
    IF key \in DOMAIN manifest /\ manifest[key][1] = "s" THEN {manifest[key][2]} ELSE {}

VerifyReturned(c) ==
    input[c].entry = "verify" /\ pc[c] = "returned" /\ run[c].result.kind = "Ok"

\* C29: verify_extension_signature returns is_valid and is_trusted both true only if
\* publicKeyId names a publisher of the trusted table and the signature verifies under
\* that publisher's key over the SHA-256 of the manifest without signature,
\* signatureAlgorithm and publicKeyId; the manifest's publicKey is not used when
\* publicKeyId names a trusted publisher, and a verdict reached with the manifest's
\* publicKey has is_trusted false.
C29_TrustedOnlyByTableKey ==
    \A c \in RunCalls :
        VerifyReturned(c) =>
            LET manifest == from_str(input[c].manifest)
                ret == run[c].result
                key_ids == StringField(manifest, "publicKeyId")
                trusted_ids == key_ids \cap DOMAIN TRUSTED_PUBLISHERS
            IN  /\ (ret.is_valid /\ ret.is_trusted) =>
                      \E id \in trusted_ids, sig \in StringField(manifest, "signature") :
                          ed25519_verify(TRUSTED_PUBLISHERS[id],
                                         Sha256(json_to_string(Stripped(manifest))), sig)
                /\ trusted_ids # {} => ret.key_source # "embedded"
                /\ ret.key_source = "embedded" => ~ret.is_trusted

\* a manifest was judged valid and trusted
C29_Witness ==
    \E c \in RunCalls :
        VerifyReturned(c) /\ run[c].result.is_valid /\ run[c].result.is_trusted

SignableReturned(c) == input[c].entry = "signable" /\ pc[c] = "returned"

\* C30: two manifests that differ only in signature, signatureAlgorithm and
\* publicKeyId, or in the order of their keys, have the same signable content; two
\* manifests that differ in another field have different signable contents, and no
\* signature is valid over both.
C30_SignableContentDependsOnStripped ==
    \A c \in SignableCalls, d \in SignableCalls :
        (SignableReturned(c) /\ SignableReturned(d)) =>
            LET same == Stripped(from_str(input[c].manifest))
                            = Stripped(from_str(input[d].manifest))
            IN  /\ same => run[c].result.content = run[d].result.content
                /\ ~same =>
                      /\ run[c].result.content # run[d].result.content
                      /\ \A key \in SigningKeys :
                            ~ed25519_verify(key, Sha256(run[d].result.content),
                                            ed25519_sign(key, Sha256(run[c].result.content)))

\* two manifests that differ in a stripped field got the same signable content
C30_Witness ==
    /\ \A c \in SignableCalls : SignableReturned(c)
    /\ from_str(input[1].manifest) # from_str(input[2].manifest)
    /\ run[1].result.content = run[2].result.content

\* the values of the authorities the sandbox is to take away
ForbiddenValues ==
    {"tbl:os", "tbl:io", "tbl:debug", "tbl:package", "tbl:loaded", "fn:require", "fn:loadfile",
     "fn:dofile", "fn:load", "fn:loadstring", "fn:rawget", "fn:rawset", "fn:rawequal",
     "fn:rawlen", "fn:collectgarbage", "fn:newproxy", "fn:string.dump"}

\* C31: in the interpreter a script runs in, no chain of look-ups from the globals
\* reaches the os, io or debug module, the package table or require, loadfile, dofile,
\* load, loadstring, the raw accessors, collectgarbage, newproxy or string.dump.
C31_SandboxedGlobalsUnreachable ==
    \A c \in RunCalls :
        (input[c].entry = "lua" /\ pc[c] = "returned") =>
            run[c].result.value \notin ForbiddenValues

\* C32: a run has one identifier: all its events, the Error event of run_native_agent
\* included, carry the same run_id; while the run is registered that run_id is its key
\* in the running tasks; and it is the id of the run's session.
C32_OneRunId ==
    \A c \in Calls :
        (HasTx(c) /\ emitted[c] # <<>>) =>
            LET run_id == emitted[c][1].run_id IN
            /\ \A i \in 1..Len(emitted[c]) : emitted[c][i].run_id = run_id
            /\ TaskId(c) \in running_tasks => run_id \in running_tasks
            /\ SessionId(c) \in DOMAIN sessions => SessionId(c) = run_id

\* tool call ids in the order the LLM returned the calls
IdBefore(a, b) == a[1] < b[1] \/ (a[1] = b[1] /\ a[2] < b[2])
InLlmOrder(ids) == \A i \in 1..Len(ids), j \in 1..Len(ids) : i < j => IdBefore(ids[i], ids[j])

\* the events a run sent through its event channel
ChannelEvents(c) ==
    IF emitted[c] # <<>> /\ emitted[c][Len(emitted[c])].run_id = TaskId(c)
    THEN SubSeq(emitted[c], 1, Len(emitted[c]) - 1)
    ELSE emitted[c]

AutoApproveCompleted(c) ==
    /\ HasTx(c)
    /\ input[c].config.approval_mode = "AutoApprove"
    /\ run[c].result = ResOk

\* C33: the first event of a run is Start; the ToolCallStart of a dispatched tool call
\* is directly followed by the ToolCallComplete of the same call; tool calls are
\* dispatched and their results appended in the order the LLM returned them; and an
\* AutoApprove run that ended with a toolless reply after k tool calls has sent
\* Start, k pairs ToolCallStart/ToolCallComplete, Complete, and counts k tool results.
C33_ToolCallsSequentialInOrder ==
    \A c \in Calls :
        LET evs == ChannelEvents(c)
            k == run[c].llm_tool_calls
        IN  /\ emitted[c] # <<>> => emitted[c][1].type = "Start"
            /\ \A i \in 1..Len(evs) :
                  evs[i].type = "ToolCallStart" =>
                      /\ i < Len(evs)
                      /\ evs[i + 1].type = "ToolCallComplete"
                      /\ evs[i + 1].tool_call_id = evs[i].tool_call_id
            /\ InLlmOrder([i \in 1..Len(dispatched[c]) |-> dispatched[c][i].id])
            /\ InLlmOrder([i \in 1..Len(run[c].all_tool_results) |->
                              run[c].all_tool_results[i].tool_call_id])
            /\ AutoApproveCompleted(c) =>
                  /\ Len(evs) = 2 * k + 2
                  /\ evs[Len(evs)].type = "Complete"
                  /\ Len(dispatched[c]) = k
                  /\ \A j \in 1..k :
                        /\ evs[2 * j].type = "ToolCallStart"
                        /\ evs[2 * j].tool_call_id = dispatched[c][j].id
                        /\ evs[2 * j + 1].type = "ToolCallComplete"
                  /\ Len(run[c].all_tool_results) = k

\* an AutoApprove run completed after the LLM had returned MaxToolCalls tool calls
C33_Witness ==
    \E c \in Calls :
        AutoApproveCompleted(c) /\ pc[c] = "returned" /\ run[c].llm_tool_calls = MaxToolCalls

\* C34: create_session removes no Active session, keeps the session it created, and
\* what it evicts are the non-Active sessions oldest by created_at, no more of them
\* than bring the count back to 100.
C34_EvictsOldestInactiveOnly ==
    [][(\E c \in StoreCalls : pc[c] # "store_log" /\ pc'[c] = "store_log") =>
         LET removed == DOMAIN sessions \ DOMAIN sessions'
             created == DOMAIN sessions' \ DOMAIN sessions
             excess == Cardinality(DOMAIN sessions) + 1 - 100
         IN  /\ Cardinality(created) = 1
             /\ \A r \in removed : sessions[r].status # "Active"
             /\ \A r \in removed, k \in DOMAIN sessions \ removed :
                   sessions[k].status # "Active" =>
                       sessions[r].created_at <= sessions[k].created_at
             /\ Cardinality(removed) <= (IF excess > 0 THEN excess ELSE 0)
             /\ Cardinality(DOMAIN sessions') > 100 =>
                   \A k \in DOMAIN sessions \ removed : sessions[k].status = "Active"]_vars

\* the store is at its limit after the oldest completed session was evicted
C34_Witness ==
    /\ Cardinality(DOMAIN sessions) = 100
    /\ StoreSessionId(0, 1) \notin DOMAIN sessions
    /\ \E c \in StoreCalls : StoreSessionId(c, 1) \in DOMAIN sessions

C36_SessionCountsExecutedCalls ==
    \A c \in RunCalls :
        (pc[c] = "returned" /\ SessionId(c) \in DOMAIN sessions) =>
            /\ sessions[SessionId(c)].tool_call_count = Len(dispatched[c])
            /\ Cardinality({ i \in 1..Len(audit_log) :
                               audit_log[i] = tool_call_entry(SessionId(c)) })
                  = Len(dispatched[c])

\* C37: a load_extension call that returns an error leaves the extensions and the
\* tool-to-extension mapping of the registry as they were, and is_extension_tool
\* answers the same as before for every tool name.
C37_FailedLoadLeavesRegistry ==
    [][\A c \in RunCalls :
         (RegistryStep(c, "load_extension") /\ ~run'[c].result.ok) =>
            /\ registry'.extensions = registry.extensions
            /\ registry'.tool_to_extension = registry.tool_to_extension
            /\ \A d \in { x \in ExtensionDirs : x.manifest # NoneValue } :
                 \A k \in DOMAIN unwrap(d.manifest).tools :
                    LET n == full_tool_name(unwrap(d.manifest).id,
                                            unwrap(d.manifest).tools[k].name)
                    IN  is_extension_tool(registry', n) = is_extension_tool(registry, n)]_vars

\* the tool names that a run treats as extension tools
Routes(c) ==
    { n \in get_tool_schemas \cup { f.name : f \in SnapshotFunctionCalls } :
        HasRegistry(c) /\ is_extension_tool(run_registry(c), n) }

\* the call has taken its copy of the registry and run_agent has not returned
InRunAgent(c) == pc[c] \in {"agent_start", "loop_top", "llm_call", "tool_top", "tool_start"}

\* C38: a run works on the registry as it was when the run started: no load or unload
\* during the run changes the tool list the run offers to the LLM or which names it
\* routes to the registry, and every tool call it has executed went the way the
\* registry of the start says.
C38_RunUsesRegistrySnapshot ==
    /\ [][\A c \in SnapshotRuns :
            (InRunAgent(c) /\ registry' # registry) =>
                /\ run'[c].tools = run[c].tools
                /\ Routes(c)' = Routes(c)]_vars
    /\ [](\A c \in SnapshotRuns :
            /\ run[c].conversation # <<>> =>
                  run[c].tools = get_tool_schemas
                                   \cup get_extension_tool_schemas(run[c].ext_registry)
            /\ \A i \in 1..Len(emitted[c]) :
                  emitted[c][i].type = "ToolCallComplete" =>
                     emitted[c][i].result =
                        (IF is_extension_tool(run[c].ext_registry, emitted[c][i].name)
                         THEN execute_tool(run[c].ext_registry,
                                           [name |-> emitted[c][i].name, args |-> "ok"])
                         ELSE dispatch_tool([name |-> emitted[c][i].name,
                                             args |-> "ok"])).output)

\* the run has executed e:a as an extension tool, the registry has been written at
\* least twice meanwhile and no longer knows the tool when the run has returned
C38_Witness ==
    \E c \in SnapshotRuns :
        /\ pc[c] = "returned"
        /\ is_extension_tool(run[c].ext_registry, <<"e", ":", "a">>)
        /\ ~is_extension_tool(registry, <<"e", ":", "a">>)
        /\ \E i \in 1..Len(emitted[c]) :
              /\ emitted[c][i].type = "ToolCallComplete"
              /\ emitted[c][i].name = <<"e", ":", "a">>
              /\ emitted[c][i].success
        /\ \E w \in SnapshotWriters : run[w].iteration >= 2

\* the run that minted an approval id
Owner(a) == a[2]

\* C39: concurrent runs do not touch each other through the shared maps.  A
\* cancel_agent_task cancels the token of one task, and only a run whose token was
\* cancelled ends as cancelled; an approval entry leaves the map only through a
\* response for that very id or through the run that minted it; a wait is resolved
\* only by the response for its own id, with that response's value; a run's tool call
\* is approved or denied only at that run's own wait; and a running-tasks entry is
\* removed only by its own call.
C39_RunsIsolated ==
    [][/\ Cardinality(cancelled' \ cancelled) <= 1
       /\ cancelled' \ cancelled # {} => UNCHANGED <<running_tasks, approvalVars, pc, run>>
       /\ responding' # responding => UNCHANGED <<running_tasks, cancelled, pc, run>>
       /\ \A c \in IsoCalls :
            /\ (run'[c].result = ErrCancelled /\ run[c].result # ErrCancelled)
                  => c \in cancelled
            /\ (pc'[c] = "approval_cancelled" /\ pc[c] # "approval_cancelled")
                  => c \in cancelled
            /\ (run'[c].approved # run[c].approved \/ run'[c].denied # run[c].denied) =>
                  /\ pc[c] = "approval_wait"
                  /\ Owner(run[c].approval_id) = c
                  /\ run'[c].approved => oneshot[run[c].approval_id] = "sent_true"
            /\ (TaskId(c) \in running_tasks /\ TaskId(c) \notin running_tasks')
                  => (pc[c] = "finish" /\ pc'[c] = "returned")
       /\ \A a \in tool_approvals \ tool_approvals' :
            \/ \E b \in BOOLEAN : <<a, b>> \in responding' \ responding
            \/ /\ pc[Owner(a)] \in {"approval_cleanup", "approval_cancelled"}
               /\ pc'[Owner(a)] # pc[Owner(a)]
               /\ run[Owner(a)].approval_id = a
       /\ \A a \in DOMAIN oneshot :
            (oneshot'[a] # oneshot[a] /\ oneshot'[a] \in {"sent_true", "sent_false"}) =>
                \E b \in BOOLEAN :
                    /\ <<a, b>> \in responding \ responding'
                    /\ oneshot'[a] = (IF b THEN "sent_true" ELSE "sent_false")]_vars

\* of two runs that both waited for an approval, one was cancelled and has ended as
\* cancelled, the other was approved, has executed its tool call and ended Ok
C39_Witness ==
    \E c, d \in IsoCalls :
        /\ pc[c] = "returned" /\ pc[d] = "returned"
        /\ run[c].result = ErrCancelled
        /\ run[c].approval_id # <<>>
        /\ run[d].result = ResOk \/ run[d].result = ErrMaxIterations
        /\ run[d].approval_id \in delivered
        /\ dispatched[d] # <<>>
        /\ dispatched[c] = <<>>

\* C40: when a run is at an LLM call, every assistant message with tool calls in its
\* conversation is directly followed by one tool-result message for each of its tool
\* calls, in their order, and by no further tool message: so it is for calls executed,
\* failed, denied or skipped in dry-run mode.
C40_OneResultPerToolCall ==
    \A c \in RunCalls :
        pc[c] = "llm_call" =>
            LET conv == run[c].conversation IN
            \A i \in 1..Len(conv) :
                (conv[i].role = "assistant" /\ conv[i].tool_calls # <<>>) =>
                    LET n == Len(conv[i].tool_calls) IN
                    /\ i + n <= Len(conv)
                    /\ \A k \in 1..n :
                          /\ conv[i + k].role = "tool"
                          /\ conv[i + k].tool_call_id = conv[i].tool_calls[k].id
                    /\ i + n < Len(conv) => conv[i + n + 1].role # "tool"

\* a run is at its second LLM call after a response with two tool calls, of which one
\* was executed and one denied
C40_Witness ==
    \E c \in RunCalls :
        /\ pc[c] = "llm_call"
        /\ run[c].llm_calls = 2
        /\ Len(run[c].tool_calls) = 2
        /\ run[c].denied # {}
        /\ Len(dispatched[c]) = 1

====
